---- MODULE Spec2Model ----
(***************************************************************************)
(* A model of the streaming MP3 decoder (package mp3): the Decoder object  *)
(* of decode.go over a byte source, with Read, Seek, SeekToSample,         *)
(* SeekToTime, Skip and the construction-time scan.                        *)
(*                                                                         *)
(* The input file is a leading tag followed by segments: whole frames, a   *)
(* run of bytes holding no frame header, or a last frame cut short by the  *)
(* end of file.  Decoded PCM is kept symbolically: a chunk names the frame *)
(* it was decoded from, whether that frame found its main data in the      *)
(* reservoir, which frame was decoded before it (the overlap and           *)
(* synthesis history), and the byte range [lo, hi) of that frame's PCM.    *)
(***************************************************************************)
EXTENDS Integers, Sequences, FiniteSets, TLC

\* ------------------------------------------------------------------ bounds
MaxFrames == 3
MaxOps == 2
\* the longest buffer handed to a bit reader, in bytes
MaxBytes == 5
\* the most blocks of bytes a source searched for a header is made of
MaxBlocks == 3

\* ------------------------------------------------------- program constants
invalidLength == -1
MaxSyncSearchBytes == 65536
SeekStart == 0
SeekCurrent == 1
SeekEnd == 2
Second == 1000000000
ID3v1Len == 128
ID3v2Len == 26
GarbageLen == 70000
ReadAllChunk == 4096

Min(a, b) == IF a < b THEN a ELSE b
Max(a, b) == IF a > b THEN a ELSE b

RECURSIVE GCD(_, _)
GCD(a, b) == IF b = 0 THEN a ELSE GCD(b, a % b)

\* <<q, r>> with a * b = q * c + r and 0 <= r < c, by doubling, so that no
\* intermediate value leaves the machine range (a < c is required).
RECURSIVE MulDivRem(_, _, _)
MulDivRem(a, b, c) ==
    LET Sum(h, t) == <<2 * h[1] + (t \div c), t % c>>
        Step(h) == Sum(h, 2 * h[2] + (b % 2) * a)
    IN  IF b = 0 THEN <<0, 0>> ELSE Step(MulDivRem(a, b \div 2, c))

\* floor(a * b / c) for a, b >= 0 and c > 0: Go's int64 product and quotient.
MulDiv(a, b, c) ==
    LET Reduced(b1, c1) == (a \div c1) * b1 + MulDivRem(a % c1, b1, c1)[1]
        By(g) == Reduced(b \div g, c \div g)
    IN  By(GCD(b, c))

\* ----------------------------------------------------------- frame header
SamplesPerFrame(ver) == IF ver = 1 THEN 1152 ELSE 576
BytesPerFrame(ver) == SamplesPerFrame(ver) * 4
SamplingFrequency(ver) == IF ver = 1 THEN 44100 ELSE 22050
Bitrate(ver) == IF ver = 1 THEN 128000 ELSE 80000
FrameSize(ver) ==
    IF ver = 1 THEN (144 * Bitrate(ver)) \div SamplingFrequency(ver)
    ELSE (72 * Bitrate(ver)) \div SamplingFrequency(ver)
SideInfoSize(ver) == IF ver = 1 THEN 32 ELSE 17
MainDataSize(ver) == FrameSize(ver) - 4 - SideInfoSize(ver)

\* ------------------------------------------------------------- input file
FrameKinds ==
    << [ver |-> 1, mdb |-> 0], [ver |-> 1, mdb |-> 450], [ver |-> 2, mdb |-> 0] >>
TailKinds == {"none", "tag", "garbage", "trunc", "resume"}

FrameSeg(k) == [kind |-> "frame", ver |-> k.ver, mdb |-> k.mdb, size |-> FrameSize(k.ver)]
JunkSeg(n) == [kind |-> "junk", ver |-> 0, mdb |-> 0, size |-> n]
TruncSeg == [kind |-> "trunc", ver |-> 1, mdb |-> 0, size |-> FrameSize(1) \div 2]

TailSegs(t) ==
    CASE t = "none" -> <<>>
      [] t = "tag" -> <<JunkSeg(ID3v1Len)>>
      [] t = "garbage" -> <<JunkSeg(GarbageLen)>>
      [] t = "trunc" -> <<TruncSeg>>
      [] t = "resume" -> <<JunkSeg(GarbageLen), FrameSeg([ver |-> 1, mdb |-> 0])>>

RECURSIVE Starts(_, _)
Starts(segs, at) ==
    IF segs = <<>> THEN <<>> ELSE <<at>> \o Starts(Tail(segs), at + Head(segs).size)

RECURSIVE TotalSize(_)
TotalSize(segs) == IF segs = <<>> THEN 0 ELSE Head(segs).size + TotalSize(Tail(segs))

MakeFile(lead, frames, tail) ==
    LET segs == [i \in 1..Len(frames) |-> FrameSeg(frames[i])] \o TailSegs(tail)
    IN  [lead |-> lead, segs |-> segs, starts |-> Starts(segs, lead),
         len |-> lead + TotalSize(segs)]

\* streams of up to MaxFrames frames whose kind changes at most once, to a
\* later kind of FrameKinds
KindPairs == { p \in (1..Len(FrameKinds)) \X (1..Len(FrameKinds)) : p[1] <= p[2] }
FrameSeqs ==
    { [i \in 1..n |-> FrameKinds[IF i <= c THEN p[1] ELSE p[2]]] :
        n \in 1..MaxFrames, c \in 1..MaxFrames, p \in KindPairs }
\* a tagged file carries both a leading ID3v2 tag and a trailing tag
Files == { MakeFile(IF t = "tag" THEN ID3v2Len ELSE 0, fr, t) : fr \in FrameSeqs, t \in TailKinds }

\* ------------------------------------------------------------- PCM chunks
RECURSIVE BufLen(_)
BufLen(b) == IF b = <<>> THEN 0 ELSE (Head(b).hi - Head(b).lo) + BufLen(Tail(b))

\* b[n:]
RECURSIVE Drop(_, _)
Drop(b, n) ==
    IF n = 0 \/ b = <<>> THEN b
    ELSE LET c == Head(b) IN
         IF n >= c.hi - c.lo THEN Drop(Tail(b), n - (c.hi - c.lo))
         ELSE <<[c EXCEPT !.lo = c.lo + n]>> \o Tail(b)

\* b[:n]
RECURSIVE Take(_, _)
Take(b, n) ==
    IF n = 0 \/ b = <<>> THEN <<>>
    ELSE LET c == Head(b) IN
         IF n >= c.hi - c.lo THEN <<c>> \o Take(Tail(b), n - (c.hi - c.lo))
         ELSE <<[c EXCEPT !.hi = c.lo + n]>>

\* append(a, b...), adjacent ranges of one decoded frame written as one chunk
Join(a, b) ==
    IF a = <<>> THEN b
    ELSE IF b = <<>> THEN a
    ELSE LET x == a[Len(a)]
             y == Head(b)
         IN  IF [x EXCEPT !.lo = 0, !.hi = 0] = [y EXCEPT !.lo = 0, !.hi = 0] /\ x.hi = y.lo
             THEN SubSeq(a, 1, Len(a) - 1) \o <<[x EXCEPT !.hi = y.hi]>> \o Tail(b)
             ELSE a \o b

\* ------------------------------------------------------------ frame layer
NoFrame == [live |-> FALSE, idx |-> 0, ok |-> TRUE, res |-> 0]

HeaderSegs(f, p) ==
    { i \in 1..Len(f.segs) : f.segs[i].kind \in {"frame", "trunc"} /\ f.starts[i] >= p }

\* frameheader.Read: the first valid header at or after p, within the limit
frameheaderRead(f, p) ==
    LET First(cand) == IF cand = {} THEN 0 ELSE CHOOSE k \in cand : \A j \in cand : k <= j
        Found(i) ==
            IF i # 0 /\ f.starts[i] - p < MaxSyncSearchBytes
            THEN [err |-> "nil", seg |-> i, hpos |-> f.starts[i], src |-> f.starts[i] + 4]
            ELSE IF f.len - p >= MaxSyncSearchBytes
            THEN [err |-> "SyncSearchLimit", seg |-> 0, hpos |-> 0,
                  src |-> p + MaxSyncSearchBytes]
            ELSE [err |-> "EOF", seg |-> 0, hpos |-> 0, src |-> f.len]
    IN  Found(First(HeaderSegs(f, p)))

\* errors.Is(err, io.EOF)
errorsIsEOF(e) == e \in {"EOF", "SyncSearchLimit"}

\* frame.Read followed by Frame.Decode: header, side info, main data appended
\* to the reservoir of the previous frame, then the PCM of the frame.
frameRead(f, p, prev) ==
    LET Body(h, sg) ==
            IF f.len - h.src < FrameSize(sg.ver) - 4
            THEN [err |-> "UnexpectedEOF", src |-> f.len, frame |-> NoFrame, pcm |-> <<>>]
            ELSE LET have == IF prev.live THEN prev.res ELSE 0
                     ok == sg.mdb <= have
                     res == (IF ok THEN sg.mdb ELSE have) + MainDataSize(sg.ver)
                 IN  [err |-> "nil", src |-> h.hpos + FrameSize(sg.ver),
                      frame |-> [live |-> TRUE, idx |-> h.seg, ok |-> ok, res |-> res],
                      pcm |-> <<[idx |-> h.seg, ok |-> ok, hidx |-> prev.idx,
                                 hok |-> prev.ok, lo |-> 0, hi |-> BytesPerFrame(sg.ver)]>>]
        Header(h) ==
            IF h.err # "nil"
            THEN [err |-> h.err, src |-> h.src, frame |-> NoFrame, pcm |-> <<>>]
            ELSE Body(h, f.segs[h.seg])
    IN  Header(frameheaderRead(f, p))

\* ---------------------------------------------------------------- Decoder
\* readFrame comparing the error with io.EOF instead of errors.Is(err, io.EOF)
readFrame_eofByEquality(f, D) ==
    LET Got(r, D1) ==
            IF r.err # "nil"
            THEN IF r.err = "EOF" THEN [d |-> D1, err |-> "EOF"]
                 ELSE IF r.err = "UnexpectedEOF" THEN [d |-> D1, err |-> "EOF"]
                 ELSE [d |-> D1, err |-> r.err]
            ELSE [d |-> [D1 EXCEPT !.buf = Join(D.buf, r.pcm)], err |-> "nil"]
        Frame(r) == Got(r, [D EXCEPT !.src = r.src, !.frame = r.frame])
    IN  Frame(frameRead(f, D.src, D.frame))

readFrame(f, D) ==
    LET Got(r, D1) ==
            IF r.err # "nil"
            THEN IF errorsIsEOF(r.err) THEN [d |-> D1, err |-> "EOF"]
                 ELSE IF r.err = "UnexpectedEOF" THEN [d |-> D1, err |-> "EOF"]
                 ELSE [d |-> D1, err |-> r.err]
            ELSE [d |-> [D1 EXCEPT !.buf = Join(D.buf, r.pcm)], err |-> "nil"]
        Frame(r) == Got(r, [D EXCEPT !.src = r.src, !.frame = r.frame])
    IN  Frame(frameRead(f, D.src, D.frame))

\* the loop of Read: for len(d.buf) == 0 { readFrame }
RECURSIVE fillBuf(_, _)
fillBuf(f, D) ==
    LET Got(r) == IF r.err # "nil" THEN r ELSE fillBuf(f, r.d) IN
    IF D.buf # <<>> THEN [d |-> D, err |-> "nil"] ELSE Got(readFrame(f, D))

\* Read without d.pos += int64(n)
Read_posNotAdvanced(f, D, size) ==
    LET Copy(D1, n) ==
            [d |-> [D1 EXCEPT !.buf = Drop(D1.buf, n)],
             n |-> n, err |-> "nil", data |-> Take(D1.buf, n)]
        Got(r) ==
            IF r.err # "nil" THEN [d |-> r.d, n |-> 0, err |-> r.err, data |-> <<>>]
            ELSE Copy(r.d, Min(size, BufLen(r.d.buf)))
    IN  Got(fillBuf(f, D))

Read(f, D, size) ==
    LET Copy(D1, n) ==
            [d |-> [D1 EXCEPT !.buf = Drop(D1.buf, n), !.pos = D1.pos + n],
             n |-> n, err |-> "nil", data |-> Take(D1.buf, n)]
        Got(r) ==
            IF r.err # "nil" THEN [d |-> r.d, n |-> 0, err |-> r.err, data |-> <<>>]
            ELSE Copy(r.d, Min(size, BufLen(r.d.buf)))
    IN  Got(fillBuf(f, D))

\* io.ReadAll(d): Read until an error; end-of-stream is not an error
RECURSIVE ReadAllFrom(_, _, _)
ReadAllFrom(f, D, acc) ==
    LET Got(r) ==
            IF r.err = "EOF"
            THEN [d |-> r.d, n |-> BufLen(acc), err |-> "nil", data |-> acc]
            ELSE IF r.err # "nil"
            THEN [d |-> r.d, n |-> BufLen(acc), err |-> r.err, data |-> acc]
            ELSE ReadAllFrom(f, r.d, Join(acc, r.data))
    IN  Got(Read(f, D, ReadAllChunk))

ReadAll(f, D) == ReadAllFrom(f, D, <<>>)

\* source.Seek(position, io.SeekStart) on a seekable reader
sourceSeek(D, p) == [D EXCEPT !.src = p]

\* Seek, after the switch on whence: the new position (negative positions
\* clamped to 0), the buffered PCM and the frame state dropped
\* (seekReset_keepBuf: the same without d.buf = nil)
seekReset_keepBuf(D, npos) ==
    [D EXCEPT !.pos = IF npos < 0 THEN 0 ELSE npos, !.frame = NoFrame]

seekReset(D, npos) ==
    [D EXCEPT !.pos = IF npos < 0 THEN 0 ELSE npos, !.buf = <<>>, !.frame = NoFrame]

Seek(f, D, offset, whence) ==
    LET \* d.buf = d.buf[cut:] and return npos
        Slice(D2, cut, npos) ==
            IF cut > BufLen(D2.buf)
            THEN [d |-> D2, ret |-> 0, err |-> "panic"]  \* slice bounds out of range
            ELSE [d |-> [D2 EXCEPT !.buf = Drop(D2.buf, cut)], ret |-> npos, err |-> "nil"]
        \* f > 0, the second readFrame: the targeted frame
        Target(D1, npos, r2) ==
            IF r2.err # "nil" THEN [d |-> r2.d, ret |-> 0, err |-> r2.err]
            ELSE Slice(r2.d, D1.bytesPerFrame + (D1.pos % D1.bytesPerFrame), npos)
        \* f > 0, the first readFrame: the frame before the targeted one
        Previous(D1, npos, r1) ==
            IF r1.err # "nil" THEN [d |-> r1.d, ret |-> 0, err |-> r1.err]
            ELSE Target(D1, npos, readFrame(f, r1.d))
        \* f = 0: the first frame alone
        Only(D1, npos, r1) ==
            IF r1.err # "nil" THEN [d |-> r1.d, ret |-> 0, err |-> r1.err]
            ELSE Slice(r1.d, D1.pos, npos)
        Frames(D1, npos, fi) ==
            IF fi > 0
            THEN IF fi > Len(D1.frameStarts)
                 THEN [d |-> D1, ret |-> 0, err |-> "panic"]  \* index out of range
                 ELSE Previous(D1, npos, readFrame(f, sourceSeek(D1, D1.frameStarts[fi])))
            ELSE IF Len(D1.frameStarts) = 0
                 THEN [d |-> D1, ret |-> 0, err |-> "panic"]  \* index out of range
                 ELSE Only(D1, npos, readFrame(f, sourceSeek(D1, D1.frameStarts[1])))
        Moved(D1, npos) ==
            IF D1.length # invalidLength /\ D1.pos >= D1.length
            THEN [d |-> D1, ret |-> npos, err |-> "nil"]
            ELSE IF D1.bytesPerFrame = 0
            THEN [d |-> D1, ret |-> 0, err |-> "panic"]       \* integer divide by zero
            ELSE Frames(D1, npos, D1.pos \div D1.bytesPerFrame)
        To(npos) == Moved(seekReset(D, npos), npos)
    IN  IF offset = 0 /\ whence = SeekCurrent
        THEN [d |-> D, ret |-> D.pos, err |-> "nil"]
        ELSE IF whence \notin {SeekStart, SeekCurrent, SeekEnd}
        THEN [d |-> D, ret |-> 0, err |-> "invalid whence"]
        ELSE To(CASE whence = SeekStart -> offset
                  [] whence = SeekCurrent -> D.pos + offset
                  [] whence = SeekEnd -> D.length + offset)

Length(D) == D.length
SamplePosition(D) == D.pos \div 4
SampleCount(D) == IF D.length = invalidLength THEN -1 ELSE D.length \div 4

bytesToDuration(D, bytes) == MulDiv(bytes, Second, D.sampleRate * 4)
durationToBytes(D, dur) == MulDiv(dur, D.sampleRate * 4, Second)
Duration(D) == IF D.length = invalidLength THEN -1 ELSE bytesToDuration(D, D.length)
Position(D) == bytesToDuration(D, D.pos)

\* SeekToSample without the clamp to SampleCount()
SeekToSample_noUpperClamp(f, D, sample) ==
    IF D.length = invalidLength
    THEN [d |-> D, ret |-> 0, err |-> "not supported"]
    ELSE Seek(f, D, (IF sample < 0 THEN 0 ELSE sample) * 4, SeekStart)

SeekToSample(f, D, sample) ==
    LET Upper(s, total) == IF s > total THEN total ELSE s IN
    IF D.length = invalidLength
    THEN [d |-> D, ret |-> 0, err |-> "not supported"]
    ELSE Seek(f, D, Upper(IF sample < 0 THEN 0 ELSE sample, SampleCount(D)) * 4, SeekStart)

SeekToTime(f, D, t) ==
    LET Upper(t1, duration) == IF t1 > duration THEN duration ELSE t1
        Aligned(bytes) == bytes - (bytes % 4)
    IN  IF D.length = invalidLength
        THEN [d |-> D, ret |-> 0, err |-> "not supported"]
        ELSE Seek(f, D,
                  Aligned(durationToBytes(D, Upper(IF t < 0 THEN 0 ELSE t, Duration(D)))),
                  SeekStart)

Skip(f, D, delta) == SeekToTime(f, D, Position(D) + delta)

\* the scan loop of ensureFrameStartsAndLength, from source position p
RECURSIVE scanFrames(_, _, _)
scanFrames(f, p, acc) ==
    LET Counted(h, v, a1) ==
            IF f.len - h.src < FrameSize(v) - 4
            THEN [a1 EXCEPT !.err = "nil"]
            ELSE scanFrames(f, h.hpos + FrameSize(v), a1)
        Frame(h, v) ==
            Counted(h, v, [acc EXCEPT !.starts = Append(acc.starts, h.hpos),
                                      !.bpf = BytesPerFrame(v),
                                      !.l = acc.l + BytesPerFrame(v)])
        Header(h) ==
            IF h.err # "nil"
            THEN IF errorsIsEOF(h.err) \/ h.err = "UnexpectedEOF"
                 THEN [acc EXCEPT !.err = "nil"]
                 ELSE [acc EXCEPT !.err = h.err]
            ELSE Frame(h, f.segs[h.seg].ver)
    IN  Header(frameheaderRead(f, p))

\* source.skipTags at the start of the file: past the leading ID3v2 tag
skipTags(f, D) == [D EXCEPT !.src = f.lead]

\* ensureFrameStartsAndLength leaving the source at the end of the file instead
\* of seeking back to the kept position
ensureFrameStartsAndLength_noRestore(f, sk, D) ==
    LET Scanned(D1, sc) ==
            IF sc.err # "nil" THEN [d |-> D1, err |-> sc.err]
            ELSE [d |-> sourceSeek([D1 EXCEPT !.frameStarts = sc.starts,
                                              !.bytesPerFrame = sc.bpf,
                                              !.length = sc.l], f.len),
                  err |-> "nil"]
        Scan(D1) ==
            Scanned(D1, scanFrames(f, D1.src, [starts |-> D.frameStarts,
                                               bpf |-> D.bytesPerFrame,
                                               l |-> 0, err |-> "nil"]))
    IN  IF D.length # invalidLength THEN [d |-> D, err |-> "nil"]
        ELSE IF ~sk THEN [d |-> D, err |-> "nil"]
        ELSE Scan(skipTags(f, sourceSeek(D, 0)))

ensureFrameStartsAndLength(f, sk, D) ==
    LET Scanned(D1, sc) ==
            IF sc.err # "nil" THEN [d |-> D1, err |-> sc.err]
            ELSE [d |-> sourceSeek([D1 EXCEPT !.frameStarts = sc.starts,
                                              !.bytesPerFrame = sc.bpf,
                                              !.length = sc.l], D.src),
                  err |-> "nil"]
        Scan(D1) ==
            Scanned(D1, scanFrames(f, D1.src, [starts |-> D.frameStarts,
                                               bpf |-> D.bytesPerFrame,
                                               l |-> 0, err |-> "nil"]))
    IN  IF D.length # invalidLength THEN [d |-> D, err |-> "nil"]
        ELSE IF ~sk THEN [d |-> D, err |-> "nil"]
        ELSE Scan(skipTags(f, sourceSeek(D, 0)))

\* NewDecoder discarding the PCM of the frame it decodes
NewDecoder_firstFrameDropped(f, sk) ==
    LET D0 == [src |-> 0, sampleRate |-> 0, length |-> invalidLength, frameStarts |-> <<>>,
               buf |-> <<>>, frame |-> NoFrame, pos |-> 0, bytesPerFrame |-> 0]
        First(r) ==
            IF r.err # "nil" THEN [d |-> r.d, err |-> r.err]
            ELSE ensureFrameStartsAndLength(f, sk,
                     [r.d EXCEPT !.buf = <<>>,
                                 !.sampleRate = SamplingFrequency(f.segs[r.d.frame.idx].ver)])
    IN  First(readFrame(f, skipTags(f, D0)))

NewDecoder(f, sk) ==
    LET D0 == [src |-> 0, sampleRate |-> 0, length |-> invalidLength, frameStarts |-> <<>>,
               buf |-> <<>>, frame |-> NoFrame, pos |-> 0, bytesPerFrame |-> 0]
        First(r) ==
            IF r.err # "nil" THEN [d |-> r.d, err |-> r.err]
            ELSE ensureFrameStartsAndLength(f, sk,
                     [r.d EXCEPT !.sampleRate = SamplingFrequency(f.segs[r.d.frame.idx].ver)])
    IN  First(readFrame(f, skipTags(f, D0)))

\* ------------------------------------------------------------------ state
VARIABLES file, seekable,
          src, sampleRate, length, frameStarts, buf, frame, pos, bytesPerFrame,
          last, nops

\* the state of a bit reader (package bits) and the call last made on it
VARIABLES vec, bitPos, bytePos, bitsErr, lastBits

decoderVars == <<file, seekable, src, sampleRate, length, frameStarts, buf, frame, pos,
                 bytesPerFrame, last, nops>>
bitsVars == <<vec, bitPos, bytePos, bitsErr, lastBits>>

\* one call of a function of the frame layers: its arguments and what it returned
VARIABLES call, result

callVars == <<call, result>>

vars == <<decoderVars, bitsVars, callVars>>

\* no single call is under study
CallIdle == call = [fn |-> "none"] /\ result = [done |-> FALSE]

\* no decoder is under study
DecoderIdle ==
    /\ file = [lead |-> 0, segs |-> <<>>, starts |-> <<>>, len |-> 0]
    /\ seekable = FALSE
    /\ src = 0 /\ sampleRate = 0 /\ length = invalidLength /\ frameStarts = <<>>
    /\ buf = <<>> /\ frame = NoFrame /\ pos = 0 /\ bytesPerFrame = 0
    /\ last = [op |-> "none", err |-> "nil"]
    /\ nops = 0

\* no bit reader is under study
BitsIdle ==
    /\ vec = <<>> /\ bitPos = 0 /\ bytePos = 0 /\ bitsErr = "nil"
    /\ lastBits = [op |-> "none"]

\* the Decoder (with the position of its source) as one value
Dec == [src |-> src, sampleRate |-> sampleRate, length |-> length,
        frameStarts |-> frameStarts, buf |-> buf, frame |-> frame, pos |-> pos,
        bytesPerFrame |-> bytesPerFrame]

Becomes(D) ==
    /\ src' = D.src
    /\ sampleRate' = D.sampleRate
    /\ length' = D.length
    /\ frameStarts' = D.frameStarts
    /\ buf' = D.buf
    /\ frame' = D.frame
    /\ pos' = D.pos
    /\ bytesPerFrame' = D.bytesPerFrame
    /\ nops' = nops + 1
    /\ UNCHANGED <<bitsVars, callVars>>

\* inputs of the calls
ReadSizes == {3000, 8192}
StartOffsets == {-4, 0, 2306, 4608, 9220}
CurrentOffsets == {-4608, 0}
EndOffsets == {-2304, 0, 4}
SampleArgs == {-100, 577, 100000}
TimeArgs == {-1, 30000000, 2 * Second}
SkipArgs == {0 - Second, Second}

\* a call is made on a constructed decoder while the program has not crashed,
\* up to MaxOps calls
Constructed == ~(last.op = "NewDecoder" /\ last.err # "nil")
Running == Constructed /\ last.err # "panic" /\ nops < MaxOps

Init ==
    \E f \in Files, sk \in BOOLEAN :
        LET Built(r) ==
                /\ file = f
                /\ seekable = sk
                /\ src = r.d.src
                /\ sampleRate = r.d.sampleRate
                /\ length = r.d.length
                /\ frameStarts = r.d.frameStarts
                /\ buf = r.d.buf
                /\ frame = r.d.frame
                /\ pos = r.d.pos
                /\ bytesPerFrame = r.d.bytesPerFrame
                /\ last = [op |-> "NewDecoder", a |-> 0, w |-> 0, ret |-> 0, err |-> r.err,
                           data |-> <<>>, from |-> 0]
                /\ nops = 0
                /\ BitsIdle
                /\ CallIdle
        IN  Built(NewDecoder(f, sk))

\* the call op(a, w) returned: the decoder as the call left it and what the
\* caller saw
Returned(op, a, w, D, ret, err, data) ==
    /\ Becomes(D)
    /\ last' = [op |-> op, a |-> a, w |-> w, ret |-> ret, err |-> err, data |-> data,
                from |-> pos]

DoRead ==
    /\ Running
    /\ \E size \in ReadSizes :
        LET Got(r) == Returned("Read", size, 0, r.d, r.n, r.err, r.data)
        IN  Got(Read(file, Dec, size))
    /\ UNCHANGED <<file, seekable>>

DoReadAll ==
    /\ Running
    /\ LET Got(r) == Returned("ReadAll", 0, 0, r.d, r.n, r.err, r.data)
       IN  Got(ReadAll(file, Dec))
    /\ UNCHANGED <<file, seekable>>

SeekCall(offset, whence) ==
    LET Got(r) == Returned("Seek", offset, whence, r.d, r.ret, r.err, <<>>)
    IN  Got(Seek(file, Dec, offset, whence))

DoSeek ==
    /\ Running
    /\ \/ \E o \in StartOffsets : SeekCall(o, SeekStart)
       \/ \E o \in CurrentOffsets : SeekCall(o, SeekCurrent)
       \/ \E o \in EndOffsets : SeekCall(o, SeekEnd)
       \/ SeekCall(0, 3)
    /\ UNCHANGED <<file, seekable>>

DoSeekToSample ==
    /\ Running
    /\ \E s \in SampleArgs :
        LET Got(r) == Returned("SeekToSample", s, 0, r.d, r.ret, r.err, <<>>)
        IN  Got(SeekToSample(file, Dec, s))
    /\ UNCHANGED <<file, seekable>>

DoSeekToTime ==
    /\ Running
    /\ \E t \in TimeArgs :
        LET Got(r) == Returned("SeekToTime", t, 0, r.d, r.ret, r.err, <<>>)
        IN  Got(SeekToTime(file, Dec, t))
    /\ UNCHANGED <<file, seekable>>

DoSkip ==
    /\ Running
    /\ \E delta \in SkipArgs :
        LET Got(r) == Returned("Skip", delta, 0, r.d, r.ret, r.err, <<>>)
        IN  Got(Skip(file, Dec, delta))
    /\ UNCHANGED <<file, seekable>>

Next == DoRead \/ DoReadAll \/ DoSeek \/ DoSeekToSample \/ DoSeekToTime \/ DoSkip

Spec == Init /\ [][Next]_vars

TypeOK ==
    /\ pos >= 0
    /\ src >= 0

\* ------------------------------------------------------------- bit reader
\* A uint32 is the sequence of its 32 binary digits, most significant first,
\* and so is every value a read returns.
Zeros(n) == [i \in 1..n |-> 0]

\* uint32(b) for a byte b
ByteBits(b) == [i \in 1..8 |-> (b \div 2^(8 - i)) % 2]

\* (uint32(b0) << 24) | (uint32(b1) << 16) | (uint32(b2) << 8) | uint32(b3)
Uint32(b0, b1, b2, b3) == ByteBits(b0) \o ByteBits(b1) \o ByteBits(b2) \o ByteBits(b3)

\* w << k and w >> k on a uint32: digits shifted out are lost, zeros come in,
\* and a count of 32 or more leaves zero
ShiftLeft(w, k) == IF k >= 32 THEN Zeros(32) ELSE SubSeq(w, k + 1, 32) \o Zeros(k)
ShiftRight(w, k) == IF k >= 32 THEN Zeros(32) ELSE Zeros(k) \o SubSeq(w, 1, 32 - k)

New(v) == [vec |-> v, bitPos |-> 0, bytePos |-> 0, err |-> "nil"]

Bit(B) ==
    IF Len(B.vec) <= B.bytePos
    THEN [b |-> [B EXCEPT !.err = "ErrOutOfBounds"], ret |-> Zeros(32)]
    ELSE [b |-> [B EXCEPT !.bytePos = B.bytePos + ((B.bitPos + 1) \div 8),
                          !.bitPos = (B.bitPos + 1) % 8],
          ret |-> Zeros(31) \o <<(B.vec[B.bytePos + 1] \div 2^(7 - B.bitPos)) % 2>>]

Bits_errNotLatched(B, num) ==
    LET bb(i) == IF B.bytePos + i <= Len(B.vec) THEN B.vec[B.bytePos + i] ELSE 0
    IN  IF num = 0 THEN [b |-> B, ret |-> Zeros(32)]
        ELSE IF B.bytePos * 8 + B.bitPos + num > Len(B.vec) * 8
        THEN [b |-> B, ret |-> Zeros(32)]
        ELSE [b |-> [B EXCEPT !.bytePos = B.bytePos + ((B.bitPos + num) \div 8),
                              !.bitPos = (B.bitPos + num) % 8],
              ret |-> ShiftRight(ShiftLeft(Uint32(bb(1), bb(2), bb(3), bb(4)), B.bitPos),
                                 32 - num)]

Bits(B, num) ==
    LET bb(i) == IF B.bytePos + i <= Len(B.vec) THEN B.vec[B.bytePos + i] ELSE 0
    IN  IF num = 0 THEN [b |-> B, ret |-> Zeros(32)]
        ELSE IF B.bytePos * 8 + B.bitPos + num > Len(B.vec) * 8
        THEN [b |-> [B EXCEPT !.err = "ErrOutOfBounds"], ret |-> Zeros(32)]
        ELSE [b |-> [B EXCEPT !.bytePos = B.bytePos + ((B.bitPos + num) \div 8),
                              !.bitPos = (B.bitPos + num) % 8],
              ret |-> ShiftRight(ShiftLeft(Uint32(bb(1), bb(2), bb(3), bb(4)), B.bitPos),
                                 32 - num)]

BitPos(B) == B.bytePos * 8 + B.bitPos

SetPos(B, p) == [B EXCEPT !.bytePos = p \div 8, !.bitPos = p % 8]

\* the bit reader as one value
Reader == [vec |-> vec, bitPos |-> bitPos, bytePos |-> bytePos, err |-> bitsErr]

\* the reader becomes B after the call op(n) that returned ret
ReaderBecomes(B, op, n, ret) ==
    /\ vec' = B.vec
    /\ bitPos' = B.bitPos
    /\ bytePos' = B.bytePos
    /\ bitsErr' = B.err
    /\ lastBits' = [op |-> op, n |-> n, ret |-> ret, from |-> BitPos(Reader),
                    errBefore |-> bitsErr]
    /\ UNCHANGED <<decoderVars, callVars>>

\* inputs of the bit reader: buffers of the bytes of the package's tests, the
\* widths asked of Bits and the positions given to SetPos
ByteValues == {85, 204}
Buffers == UNION { [1..n -> ByteValues] : n \in 0..MaxBytes }
Widths == {0, 1, 4, 8, 12, 29, 32}
Positions == {0, 4, 7, 13, 8 * MaxBytes}

InitBits ==
    /\ DecoderIdle
    /\ CallIdle
    /\ \E v \in Buffers :
          /\ vec = New(v).vec
          /\ bitPos = New(v).bitPos
          /\ bytePos = New(v).bytePos
          /\ bitsErr = New(v).err
    /\ lastBits = [op |-> "New", n |-> 0, ret |-> Zeros(32), from |-> 0,
                   errBefore |-> "nil"]

DoBit ==
    LET Got(r) == ReaderBecomes(r.b, "Bit", 1, r.ret)
    IN  Got(Bit(Reader))

DoBits ==
    \E num \in Widths :
        LET Got(r) == ReaderBecomes(r.b, "Bits", num, r.ret)
        IN  Got(Bits(Reader, num))

DoSetPos ==
    \E p \in Positions : ReaderBecomes(SetPos(Reader, p), "SetPos", p, Zeros(32))

NextBits == DoBit \/ DoBits \/ DoSetPos

SpecBits == InitBits /\ [][NextBits]_vars

\* the binary digits of the buffer, in stream order
BitStream(v) == [i \in 1..(8 * Len(v)) |-> ByteBits(v[((i - 1) \div 8) + 1])[((i - 1) % 8) + 1]]

\* ------------------------------------------------------------ single calls
\* the call returns r
Returns(r) ==
    /\ ~result.done
    /\ result' = r
    /\ UNCHANGED <<call, decoderVars, bitsVars>>

Continues(st) == result' = st /\ UNCHANGED <<call, decoderVars, bitsVars>>

\* ------------------------------------------------------------- readHuffman
SamplesPerGr == 576

\* consts.SfBandIndices[lsf][sfreq][consts.SfBandIndicesLong] of MPEG1 at
\* 44100 Hz: 23 entries, indices 0..22, the last one the granule length
SfBandIndicesLong ==
    <<0, 4, 8, 12, 16, 20, 24, 30, 36, 44, 52, 62, 74, 90, 110, 134, 162, 196, 238,
      288, 342, 418, 576>>

\* the region boundaries readHuffman settles on for one granule and channel,
\* or the error it returns before decoding any Huffman word
regionStarts(si) ==
    LET l == SfBandIndicesLong
        i == si.Region0Count + 1
        j == si.Region0Count + si.Region1Count + 2
    IN  IF si.WinSwitchFlag = 1 /\ si.BlockType = 2
        THEN [err |-> "nil", region1Start |-> 36, region2Start |-> SamplesPerGr]
        ELSE IF i < 0 \/ Len(l) <= i
        THEN [err |-> "invalid index i", region1Start |-> 0, region2Start |-> 0]
        ELSE IF j < 0 \/ Len(l) <= j
        THEN [err |-> "invalid index j", region1Start |-> l[i + 1], region2Start |-> 0]
        ELSE [err |-> "nil", region1Start |-> l[i + 1], region2Start |-> l[j + 1]]

\* readHuffman for one granule and channel: the error it returns, the region
\* boundaries it used, and the number of the table slot (0, 1 or 2) that
\* decodes the last pair of the big_values area.  Huffman words themselves
\* decode without error.
readHuffman(si) ==
    LET last2 == si.BigValues * 2 - 2
        Slot(r) == IF last2 < r.region1Start THEN 0
                   ELSE IF last2 < r.region2Start THEN 1 ELSE 2
        After(r) ==
            IF r.err # "nil"
            THEN [done |-> TRUE, err |-> r.err, region1Start |-> r.region1Start,
                  region2Start |-> r.region2Start, slot |-> 0]
            ELSE IF si.BigValues * 2 > SamplesPerGr
            THEN [done |-> TRUE, err |-> "isPos was too big",
                  region1Start |-> r.region1Start, region2Start |-> r.region2Start,
                  slot |-> 0]
            ELSE [done |-> TRUE, err |-> "nil", region1Start |-> r.region1Start,
                  region2Start |-> r.region2Start, slot |-> Slot(r)]
    IN  IF si.Part2_3Length = 0
        THEN [done |-> TRUE, err |-> "nil", region1Start |-> 0, region2Start |-> 0,
              slot |-> 0]
        ELSE After(regionStarts(si))

\* side information of one granule and channel, as the fields readHuffman reads
HuffmanInputs ==
    [fn : {"readHuffman"}, Part2_3Length : {0, 100}, BigValues : {10, 288, 300},
     WinSwitchFlag : {0, 1}, BlockType : {0, 2}, Region0Count : 0..15,
     Region1Count : 0..7]

InitHuffman ==
    /\ DecoderIdle
    /\ BitsIdle
    /\ call \in HuffmanInputs
    /\ result = [done |-> FALSE]

DoReadHuffman == call.fn = "readHuffman" /\ Returns(readHuffman(call))

NextHuffman == DoReadHuffman

SpecHuffman == InitHuffman /\ [][NextHuffman]_vars

\* ------------------------------------------------------ frame header bits
\* A frame header is the sequence of its 4 bytes, first byte first.
HasSync(h) == h[1] = 255 /\ h[2] \div 32 = 7
mpegVersion(h) == (h[2] \div 8) % 4
Layer(h) == (h[2] \div 2) % 4
BitrateIndex(h) == h[3] \div 16
SamplingRateIndex(h) == (h[3] \div 4) % 4
PaddingBit(h) == (h[3] \div 2) % 2
channelMode(h) == h[4] \div 64

\* validity of a header: the 11 sync bits, Layer III, a bitrate index other
\* than 0 and 15, a sampling rate index other than 3
IsValid_anyLayer(h) ==
    /\ HasSync(h)
    /\ Layer(h) # 0
    /\ BitrateIndex(h) \notin {0, 15}
    /\ SamplingRateIndex(h) # 3

IsValid(h) ==
    /\ HasSync(h)
    /\ Layer(h) = 1
    /\ BitrateIndex(h) \notin {0, 15}
    /\ SamplingRateIndex(h) # 3

\* the 4 bytes of data at offset q (offsets count from 0)
Window(data, q) == SubSeq(data, q + 1, q + 4)

\* frameheader.Read on a source holding data, started at offset position:
\* four bytes are read and checked; an invalid window is left by one byte and
\* the next byte read, for at most MaxSyncSearchBytes bytes
RECURSIVE syncSearch(_, _, _)
syncSearch(data, q, skipped) ==
    IF q + 4 > Len(data) THEN [done |-> TRUE, err |-> "EOF", header |-> <<>>, position |-> q]
    ELSE IF IsValid(Window(data, q))
    THEN [done |-> TRUE, err |-> "nil", header |-> Window(data, q), position |-> q]
    ELSE IF skipped + 1 > MaxSyncSearchBytes
    THEN [done |-> TRUE, err |-> "SyncSearchLimitError", header |-> <<>>, position |-> q]
    ELSE syncSearch(data, q + 1, skipped + 1)

frameheaderReadBytes(data, position) == syncSearch(data, position, 0)

\* sources searched for a header: blocks of a zero byte, a 0xFF byte, the
\* Layer I false sync 0xFFFFC420, a Layer II header 0xFFFD9044, the Layer III
\* headers 0xFFFB9044 and 0xFFFBB200, and Layer III headers with bitrate
\* index 0 and sampling rate index 3
Blocks ==
    { <<0>>, <<255>>, <<255, 255, 196, 32>>, <<255, 253, 144, 68>>,
      <<255, 251, 144, 68>>, <<255, 251, 178, 0>>, <<255, 251, 0, 68>>,
      <<255, 251, 156, 68>> }

RECURSIVE Sources(_)
Sources(n) ==
    IF n = 0 THEN {<<>>}
    ELSE Sources(n - 1) \cup { d \o b : d \in Sources(n - 1), b \in Blocks }

SyncInputs == [fn : {"frameheader.Read"}, data : Sources(MaxBlocks), position : {0, 1, 4}]

InitSync ==
    /\ DecoderIdle
    /\ BitsIdle
    /\ call \in SyncInputs
    /\ result = [done |-> FALSE]

DoFrameheaderRead ==
    /\ call.fn = "frameheader.Read"
    /\ Returns(frameheaderReadBytes(call.data, call.position))

NextSync == DoFrameheaderRead

SpecSync == InitSync /\ [][NextSync]_vars

\* ------------------------------------------------- header-derived sizes
\* bitrateTable[mpegVersion][layer][bitrateIndex] in kbps, indexed by the
\* header's bit fields (rows that are not written out hold zeros)
bitrateTable(version, layer, index) ==
    LET low3 == <<0, 8, 16, 24, 32, 40, 48, 56, 64, 80, 96, 112, 128, 144, 160, 0>>
        low1 == <<0, 32, 48, 56, 64, 80, 96, 112, 128, 144, 160, 176, 192, 224, 256, 0>>
        one3 == <<0, 32, 40, 48, 56, 64, 80, 96, 112, 128, 160, 192, 224, 256, 320, 0>>
        one2 == <<0, 32, 48, 56, 64, 80, 96, 112, 128, 160, 192, 224, 256, 320, 384, 0>>
        one1 == <<0, 32, 64, 96, 128, 160, 192, 224, 256, 288, 320, 352, 384, 416, 448, 0>>
    IN  IF version = 1 \/ layer = 0 THEN 0
        ELSE IF version = 3
        THEN (IF layer = 1 THEN one3 ELSE IF layer = 2 THEN one2 ELSE one1)[index + 1]
        ELSE (IF layer = 3 THEN low1 ELSE low3)[index + 1]

samplingRateTable(version, index) ==
    (IF version = 0 THEN <<11025, 12000, 8000, 0>>
     ELSE IF version = 1 THEN <<0, 0, 0, 0>>
     ELSE IF version = 2 THEN <<22050, 24000, 16000, 0>>
     ELSE <<44100, 48000, 32000, 0>>)[index + 1]

calculateFrameSize_alwaysHalf(version, layer, bitrateIndex, samplingRateIndex, padding) ==
    LET bitrate == bitrateTable(version, layer, bitrateIndex) * 1000
        samplingRate == samplingRateTable(version, samplingRateIndex)
    IN  IF bitrate = 0 \/ samplingRate = 0 THEN 0
        ELSE IF layer = 3 THEN ((12 * bitrate) \div samplingRate + padding) * 4
        ELSE (72 * bitrate) \div samplingRate + padding

calculateFrameSize(version, layer, bitrateIndex, samplingRateIndex, padding) ==
    LET bitrate == bitrateTable(version, layer, bitrateIndex) * 1000
        samplingRate == samplingRateTable(version, samplingRateIndex)
    IN  IF bitrate = 0 \/ samplingRate = 0 THEN 0
        ELSE IF layer = 3 THEN ((12 * bitrate) \div samplingRate + padding) * 4
        ELSE IF version = 3 THEN (144 * bitrate) \div samplingRate + padding
        ELSE (72 * bitrate) \div samplingRate + padding

sideInfoSize(version, mono) ==
    IF version = 1 THEN (IF mono THEN 17 ELSE 32)
    ELSE (IF mono THEN 9 ELSE 17)

\* the MPEG version a header names: 1, 2, or 25 for MPEG 2.5
Version(h) == IF mpegVersion(h) = 3 THEN 1 ELSE IF mpegVersion(h) = 2 THEN 2 ELSE 25

NumberOfChannels_stereoIsMono(h) == IF channelMode(h) = 0 THEN 1 ELSE 2

NumberOfChannels(h) == IF channelMode(h) = 3 THEN 1 ELSE 2

\* what a header says of its frame: the frame's size in bytes, its samples per
\* channel, the size of its side information, its channels and the bytes of
\* 16-bit stereo PCM it decodes to
Derived(h) ==
    [done |-> TRUE,
     frameSize |-> calculateFrameSize(mpegVersion(h), Layer(h), BitrateIndex(h),
                                      SamplingRateIndex(h), PaddingBit(h)),
     samplesPerFrame |-> SamplesPerFrame(Version(h)),
     sideInfoSize |-> sideInfoSize(IF Version(h) = 1 THEN 1 ELSE 2,
                                   NumberOfChannels(h) = 1),
     channels |-> NumberOfChannels(h),
     pcmBytes |-> BytesPerFrame(Version(h))]

\* Layer III headers of every version, bitrate, sampling rate, padding and
\* channel mode
Headers ==
    { <<255, b1, 16 * br + 4 * sf + 2 * pad, b4>> :
        b1 \in {251, 243, 227}, br \in 1..14, sf \in 0..2, pad \in 0..1,
        b4 \in {0, 68, 128, 192} }

InitHeader ==
    /\ DecoderIdle
    /\ BitsIdle
    /\ call \in [fn : {"header"}, header : Headers]
    /\ result = [done |-> FALSE]

DoDerive == call.fn = "header" /\ Returns(Derived(call.header))

NextHeader == DoDerive

SpecHeader == InitHeader /\ [][NextHeader]_vars

\* ------------------------------------------------------- side information
\* ReadFull(buf) on a source with avail bytes left that ends, or fails with
\* another error, where its bytes run out
ReadFull(avail, size, failure) ==
    IF avail < size THEN [n |-> avail, err |-> failure] ELSE [n |-> size, err |-> "nil"]

\* the bits sideinfo.Read takes from the buffer for a frame of nch channels
sideInfoBits(lsf, nch) ==
    IF lsf = 0
    THEN 9 + (IF nch = 1 THEN 5 ELSE 3) + nch * 4
         + 2 * nch * (12 + 9 + 8 + 4 + 1 + 22 + 1 + 1 + 1)
    ELSE 8 + (IF nch = 1 THEN 1 ELSE 2)
         + nch * (12 + 9 + 8 + 9 + 1 + 22 + 1 + 1)

\* sideinfo.Read for a header h, given as what its accessors return, on a
\* source with avail bytes left: the SideInfo returned (or nil), the error, and
\* the bytes taken from the source
sideinfoRead_noSizeLimit(h, avail, failure) ==
    LET sideinfoSize == sideInfoSize(IF h.lsf = 0 THEN 1 ELSE 2, h.nch = 1)
        Got(r) ==
            IF r.n < sideinfoSize
            THEN [done |-> TRUE, si |-> "nil", read |-> r.n, bits |-> 0,
                  err |-> IF r.err = "EOF" THEN "UnexpectedEOFError"
                          ELSE "couldn't read sideinfo"]
            ELSE [done |-> TRUE, si |-> "SideInfo", read |-> r.n,
                  bits |-> sideInfoBits(h.lsf, h.nch), err |-> "nil"]
    IN  IF h.frameSizeErr # "nil"
        THEN [done |-> TRUE, si |-> "nil", read |-> 0, bits |-> 0, err |-> h.frameSizeErr]
        ELSE Got(ReadFull(avail, sideinfoSize, failure))

sideinfoRead(h, avail, failure) ==
    LET sideinfoSize == sideInfoSize(IF h.lsf = 0 THEN 1 ELSE 2, h.nch = 1)
        Got(r) ==
            IF r.n < sideinfoSize
            THEN [done |-> TRUE, si |-> "nil", read |-> r.n, bits |-> 0,
                  err |-> IF r.err = "EOF" THEN "UnexpectedEOFError"
                          ELSE "couldn't read sideinfo"]
            ELSE [done |-> TRUE, si |-> "SideInfo", read |-> r.n,
                  bits |-> sideInfoBits(h.lsf, h.nch), err |-> "nil"]
    IN  IF h.frameSizeErr # "nil"
        THEN [done |-> TRUE, si |-> "nil", read |-> 0, bits |-> 0, err |-> h.frameSizeErr]
        ELSE IF h.framesize > 2000
        THEN [done |-> TRUE, si |-> "nil", read |-> 0, bits |-> 0, err |-> "framesize"]
        ELSE Got(ReadFull(avail, sideinfoSize, failure))

\* headers as the values of their accessors, and sources by the bytes they
\* have left and the error they end with
SideInfoInputs ==
    [fn : {"sideinfo.Read"},
     h : [lsf : {0, 1}, nch : {1, 2}, framesize : {417, 1441, 2000, 2001, 2016},
          frameSizeErr : {"nil", "FrameSizeError"}],
     avail : {0, 8, 9, 16, 17, 31, 32, 40},
     failure : {"EOF", "ErrClosedPipe"}]

InitSideInfo ==
    /\ DecoderIdle
    /\ BitsIdle
    /\ call \in SideInfoInputs
    /\ result = [done |-> FALSE]

DoSideinfoRead ==
    /\ call.fn = "sideinfo.Read"
    /\ Returns(sideinfoRead(call.h, call.avail, call.failure))

NextSideInfo == DoSideinfoRead

SpecSideInfo == InitSideInfo /\ [][NextSideInfo]_vars

\* ------------------------------------- side information, field by field
\* one s.Bits call for each width, in order
RECURSIVE readEach(_, _)
readEach(B, widths) ==
    IF widths = <<>> THEN B
    ELSE Bits(readEach(B, SubSeq(widths, 1, Len(widths) - 1)), widths[Len(widths)]).b

\* the reads of one granule and channel; st holds the bit reader, the
\* window_switching_flag values read so far and the granule-channels to go
sideinfoGranule_twoGains(st, lsf) ==
    LET Flag(r) ==
            [st EXCEPT
               !.b = readEach(r.b,
                      (IF r.ret[32] = 1 THEN <<2, 1, 5, 5, 3, 3>> ELSE <<5, 5, 5, 4, 3>>)
                      \o (IF lsf = 0 THEN <<1, 1, 1>> ELSE <<1, 1>>)),
               !.flags = Append(st.flags, r.ret[32]),
               !.left = st.left - 1]
    IN  Flag(Bits(readEach(st.b, <<12, 9, 8, IF lsf = 0 THEN 4 ELSE 9>>), 1))

sideinfoGranule(st, lsf) ==
    LET Flag(r) ==
            [st EXCEPT
               !.b = readEach(r.b,
                      (IF r.ret[32] = 1 THEN <<2, 1, 5, 5, 3, 3, 3>> ELSE <<5, 5, 5, 4, 3>>)
                      \o (IF lsf = 0 THEN <<1, 1, 1>> ELSE <<1, 1>>)),
               !.flags = Append(st.flags, r.ret[32]),
               !.left = st.left - 1]
    IN  Flag(Bits(readEach(st.b, <<12, 9, 8, IF lsf = 0 THEN 4 ELSE 9>>), 1))

\* the reads before the granule loop: main_data_begin, private bits, scfsi
sideinfoHead(b0, lsf, nch) ==
    [done |-> FALSE, pc |-> "granules",
     b |-> readEach(New(b0),
              <<IF lsf = 0 THEN 9 ELSE 8,
                IF nch = 1 THEN (IF lsf = 0 THEN 5 ELSE 1) ELSE (IF lsf = 0 THEN 3 ELSE 2)>>
              \o (IF lsf = 0 THEN [i \in 1..(nch * 4) |-> 1] ELSE <<>>)),
     flags |-> <<>>,
     left |-> (IF lsf = 0 THEN 2 ELSE 1) * nch]

\* where the bit reader stands and what its error is after the last field
sideinfoReturn(st) ==
    [done |-> TRUE, bitPos |-> BitPos(st.b), err |-> st.b.err,
     flags |-> st.flags, size |-> Len(st.b.vec)]

\* buffers of the header's side-info size, filled with a pattern of three bytes
FieldInputs ==
    [fn : {"sideinfo.Read fields"}, lsf : {0, 1}, nch : {1, 2},
     pattern : [1..3 -> {0, 170, 255}]]

fieldsBuf(c) ==
    [i \in 1..sideInfoSize(IF c.lsf = 0 THEN 1 ELSE 2, c.nch = 1) |->
        c.pattern[((i - 1) % 3) + 1]]

InitFields ==
    /\ DecoderIdle
    /\ BitsIdle
    /\ call \in FieldInputs
    /\ result = [done |-> FALSE, pc |-> "start"]

DoSideinfoHead ==
    /\ call.fn = "sideinfo.Read fields"
    /\ ~result.done
    /\ result.pc = "start"
    /\ Continues(sideinfoHead(fieldsBuf(call), call.lsf, call.nch))

DoSideinfoGranule ==
    /\ call.fn = "sideinfo.Read fields"
    /\ ~result.done
    /\ result.pc = "granules"
    /\ result.left > 0
    /\ Continues(sideinfoGranule(result, call.lsf))

DoSideinfoReturn ==
    /\ call.fn = "sideinfo.Read fields"
    /\ ~result.done
    /\ result.pc = "granules"
    /\ result.left = 0
    /\ Continues(sideinfoReturn(result))

NextFields ==
    \/ DoSideinfoHead
    \/ DoSideinfoGranule
    \/ DoSideinfoReturn

SpecFields == InitFields /\ [][NextFields]_vars

\* ------------------------------------------- readHuffman, word by word
\* mainData.Is[gr][ch] holds for each of its 576 samples what was stored
\* there last: "stale" (nothing yet), "big" (a value of a big_values pair),
\* "v", "w", "x", "y" (a value of a quadruple) or "zero".  A Huffman word is
\* known by the bits it takes from the reader; huffman.Decode may also fail.
StaleIs == [i \in 0..(SamplesPerGr - 1) |-> "stale"]

\* mainData.Is[gr][ch][i] = value
Store(st, i, value) ==
    IF i \notin DOMAIN st.is THEN [st EXCEPT !.err = "panic", !.done = TRUE]
    ELSE [st EXCEPT !.is = [st.is EXCEPT ![i] = value]]

\* readHuffman up to the end of the big_values loop (lines 97-155): the words
\* of the big_values area were decoded, taking bigBits bits in all, until the
\* loop ended or met isPos >= 576, unless (fail) a word did not decode
\* (huffmanBigValues_noBoundCheck: the same without the check of isPos)
huffmanBigValues_noBoundCheck(si, part2Start, bigBits, fail) ==
    LET st0 == [done |-> FALSE, pc |-> "count1", err |-> "nil", is |-> StaleIs,
                isPos |-> 0, bitPos |-> part2Start,
                bitPosEnd |-> part2Start + si.Part2_3Length - 1,
                count1 |-> 0, quads |-> 0, quadAt |-> 0 - 1]
        \* the pairs 0 .. n-1 stored at 2k and 2k+1
        Stored(st, n) ==
            IF n > 0 /\ 2 * n - 1 \notin DOMAIN st.is
            THEN [st EXCEPT !.err = "panic", !.done = TRUE]
            ELSE [st EXCEPT !.is = [i \in 0..(SamplesPerGr - 1) |->
                                       IF i < 2 * n THEN "big" ELSE st.is[i]],
                            !.isPos = 2 * n,
                            !.bitPos = part2Start + bigBits]
        Ended(st) ==
            IF ~st.done /\ si.BigValues * 2 > SamplesPerGr
            THEN [st EXCEPT !.err = "isPos was too big", !.done = TRUE]
            ELSE st
        After(r) ==
            IF r.err # "nil" THEN [st0 EXCEPT !.err = r.err, !.done = TRUE]
            ELSE IF fail /\ si.BigValues > 0
            THEN [st0 EXCEPT !.err = "huffman.Decode", !.done = TRUE]
            ELSE Ended(Stored(st0, si.BigValues))
    IN  IF si.Part2_3Length = 0
        THEN [st0 EXCEPT !.is = [i \in 0..(SamplesPerGr - 1) |-> "zero"], !.done = TRUE]
        ELSE After(regionStarts(si))

huffmanBigValues(si, part2Start, bigBits, fail) ==
    LET st0 == [done |-> FALSE, pc |-> "count1", err |-> "nil", is |-> StaleIs,
                isPos |-> 0, bitPos |-> part2Start,
                bitPosEnd |-> part2Start + si.Part2_3Length - 1,
                count1 |-> 0, quads |-> 0, quadAt |-> 0 - 1]
        \* the pairs 0 .. n-1 stored at 2k and 2k+1
        Stored(st, n) ==
            IF n > 0 /\ 2 * n - 1 \notin DOMAIN st.is
            THEN [st EXCEPT !.err = "panic", !.done = TRUE]
            ELSE [st EXCEPT !.is = [i \in 0..(SamplesPerGr - 1) |->
                                       IF i < 2 * n THEN "big" ELSE st.is[i]],
                            !.isPos = 2 * n,
                            !.bitPos = part2Start + bigBits]
        Ended(st) ==
            IF ~st.done /\ si.BigValues * 2 > SamplesPerGr
            THEN [st EXCEPT !.err = "isPos was too big", !.done = TRUE]
            ELSE st
        After(r) ==
            IF r.err # "nil" THEN [st0 EXCEPT !.err = r.err, !.done = TRUE]
            ELSE IF fail /\ si.BigValues > 0
            THEN [st0 EXCEPT !.err = "huffman.Decode", !.done = TRUE]
            ELSE Ended(Stored(st0, Min(si.BigValues, SamplesPerGr \div 2)))
    IN  IF si.Part2_3Length = 0
        THEN [st0 EXCEPT !.is = [i \in 0..(SamplesPerGr - 1) |-> "zero"], !.done = TRUE]
        ELSE After(regionStarts(si))

\* one turn of the count1 loop (lines 160-183): a word of bits bits gives
\* v, w, x, y
huffmanQuad_xyvw(st, bits, fail) ==
    LET Next1(s1, value) ==
            IF s1.done \/ s1.isPos >= SamplesPerGr THEN s1
            ELSE [Store(s1, s1.isPos, value) EXCEPT !.isPos = s1.isPos + 1]
        Read1(s0) == [s0 EXCEPT !.bitPos = s0.bitPos + bits, !.quads = s0.quads + 1,
                                !.quadAt = s0.isPos]
    IN  IF fail THEN [st EXCEPT !.err = "huffman.Decode", !.done = TRUE]
        ELSE Next1(Next1(Next1(Next1(Read1(st), "x"), "y"), "v"), "w")

huffmanQuad(st, bits, fail) ==
    LET Next1(s1, value) ==
            IF s1.done \/ s1.isPos >= SamplesPerGr THEN s1
            ELSE [Store(s1, s1.isPos, value) EXCEPT !.isPos = s1.isPos + 1]
        Read1(s0) == [s0 EXCEPT !.bitPos = s0.bitPos + bits, !.quads = s0.quads + 1,
                                !.quadAt = s0.isPos]
    IN  IF fail THEN [st EXCEPT !.err = "huffman.Decode", !.done = TRUE]
        ELSE Next1(Next1(Next1(Next1(Read1(st), "v"), "w"), "x"), "y")

\* the count1 loop goes on: isPos <= 572 && m.BitPos() <= bitPosEnd
huffmanMore(st) == st.isPos <= 572 /\ st.bitPos <= st.bitPosEnd

\* readHuffman after the count1 loop (lines 184-203)
huffmanFinish_zeroFromLoopEnd(st) ==
    LET Back(p) == IF st.bitPos > st.bitPosEnd + 1 THEN p - 4 ELSE p
        Floor(p) == IF p < 0 THEN 0 ELSE p
        Zeroed(p) ==
            [st EXCEPT !.count1 = p,
                       !.is = [i \in 0..(SamplesPerGr - 1) |->
                                  IF i >= st.isPos THEN "zero" ELSE st.is[i]],
                       !.isPos = Max(st.isPos, SamplesPerGr),
                       !.bitPos = st.bitPosEnd + 1,
                       !.pc = "return", !.done = TRUE]
    IN  Zeroed(Floor(Back(st.isPos)))

huffmanFinish(st) ==
    LET Back(p) == IF st.bitPos > st.bitPosEnd + 1 THEN p - 4 ELSE p
        Floor(p) == IF p < 0 THEN 0 ELSE p
        Zeroed(p) ==
            [st EXCEPT !.count1 = p,
                       !.is = [i \in 0..(SamplesPerGr - 1) |->
                                  IF i >= p THEN "zero" ELSE st.is[i]],
                       !.isPos = Max(p, SamplesPerGr),
                       !.bitPos = st.bitPosEnd + 1,
                       !.pc = "return", !.done = TRUE]
    IN  Zeroed(Floor(Back(st.isPos)))

\* side information, the start of the part in the reader, and the bits the
\* words of the big_values area take in all
WordInputs ==
    [fn : {"readHuffman words"}, Part2_3Length : {0, 12, 30},
     BigValues : {0, 1, 3, 284, 285, 286, 288, 289, 511},
     WinSwitchFlag : {0}, BlockType : {0}, Region0Count : {7}, Region1Count : {13},
     part2Start : {0, 5}, bigBits : {0, 8, 13, 40}]
QuadBits == {1, 10}

InitWords ==
    /\ DecoderIdle
    /\ BitsIdle
    /\ call \in WordInputs
    /\ result = [done |-> FALSE, pc |-> "start"]

DoBigValues ==
    /\ call.fn = "readHuffman words" /\ ~result.done /\ result.pc = "start"
    /\ \E fail \in BOOLEAN :
          Continues(huffmanBigValues(call, call.part2Start, call.bigBits, fail))

DoQuad ==
    /\ call.fn = "readHuffman words" /\ ~result.done /\ result.pc = "count1"
    /\ huffmanMore(result)
    /\ \E bits \in QuadBits, fail \in BOOLEAN : Continues(huffmanQuad(result, bits, fail))

DoFinish ==
    /\ call.fn = "readHuffman words" /\ ~result.done /\ result.pc = "count1"
    /\ ~huffmanMore(result)
    /\ Continues(huffmanFinish(result))

NextWords == DoBigValues \/ DoQuad \/ DoFinish

SpecWords == InitWords /\ [][NextWords]_vars

\* -------------------------------------------------------------- imdct.Win
\* Samples are known by whether they can differ from zero.  The input is the
\* set of indices of its samples that are not zero; each output sample is the
\* set of the terms added into it that can differ from zero: <<"short", i>>
\* for window i of a short block, <<"long", 0>> for the 36-point transform.

\* imdctWinData[blockType][p] # 0
imdctWinNonZero(blockType, p) ==
    CASE blockType = 0 -> TRUE
      [] blockType = 1 -> p < 30
      [] blockType = 2 -> p < 12
      [] blockType = 3 -> p >= 6

Win_fromOffsetZero(in, blockType) ==
    LET \* sum over m of in[i+3*m] * cosN12[m][p] can differ from zero
        Short(i) == \E m \in 0..5 : (i + 3 * m) \in in
        Long == \E m \in 0..17 : m \in in
    IN  IF blockType = 2
        THEN [k \in 0..35 |->
                { <<"short", i>> : i \in { j \in 0..2 :
                      \E q \in 0..11 : /\ 6 * j + q = k
                                        /\ Short(j) /\ imdctWinNonZero(blockType, q) } }]
        ELSE [k \in 0..35 |->
                IF Long /\ imdctWinNonZero(blockType, k) THEN {<<"long", 0>>} ELSE {}]

Win(in, blockType) ==
    LET \* sum over m of in[i+3*m] * cosN12[m][p] can differ from zero
        Short(i) == \E m \in 0..5 : (i + 3 * m) \in in
        Long == \E m \in 0..17 : m \in in
    IN  IF blockType = 2
        THEN [k \in 0..35 |->
                { <<"short", i>> : i \in { j \in 0..2 :
                      \E q \in 0..11 : /\ 6 * j + q + 6 = k
                                        /\ Short(j) /\ imdctWinNonZero(blockType, q) } }]
        ELSE [k \in 0..35 |->
                IF Long /\ imdctWinNonZero(blockType, k) THEN {<<"long", 0>>} ELSE {}]

\* inputs with at most three samples that are not zero
WinInputs ==
    [fn : {"Win"}, blockType : 0..3,
     in : { {a, b, c} : a \in 0..17, b \in 0..17, c \in 0..17 } \cup {{}}]

InitWin ==
    /\ DecoderIdle
    /\ BitsIdle
    /\ call \in WinInputs
    /\ result = [done |-> FALSE]

DoWin ==
    /\ call.fn = "Win"
    /\ Returns([done |-> TRUE, out |-> Win(call.in, call.blockType)])

NextWin == DoWin

SpecWin == InitWin /\ [][NextWin]_vars

\* ------------------------------------------------------ derived quantities
\* a decoder freshly constructed on the same file and the same kind of reader
Fresh == NewDecoder(file, seekable).d

\* the PCM a straight read of a fresh decoder delivers up to end of stream
StraightRead == ReadAll(file, Fresh).data

\* what reading the decoder to end of stream delivers from the current state
Rest == ReadAll(file, Dec)

\* the whole frames that precede the first other segment of the file
RECURSIVE LeadingFrames(_)
LeadingFrames(segs) ==
    IF segs = <<>> \/ Head(segs).kind # "frame" THEN <<>>
    ELSE <<[ver |-> Head(segs).ver, mdb |-> Head(segs).mdb]>> \o LeadingFrames(Tail(segs))

RECURSIVE PCMBytes(_)
PCMBytes(kinds) ==
    IF kinds = <<>> THEN 0 ELSE BytesPerFrame(Head(kinds).ver) + PCMBytes(Tail(kinds))

\* every frame of the file (whole or truncated) has the same MPEG version
UniformVersion ==
    \A i, j \in 1..Len(file.segs) :
        (file.segs[i].kind # "junk" /\ file.segs[j].kind # "junk")
            => file.segs[i].ver = file.segs[j].ver

\* the file is whole frames followed by nothing but header-free bytes
FramesThenGarbage ==
    \A i \in 1..Len(file.segs) :
        file.segs[i].kind # "frame" => \A j \in i..Len(file.segs) : file.segs[j].kind = "junk"

\* the whole frames are followed by a header-free run longer than the sync limit
LongGap ==
    LET k == Len(LeadingFrames(file.segs)) IN
    /\ k < Len(file.segs)
    /\ file.segs[k + 1].kind = "junk"
    /\ file.segs[k + 1].size > MaxSyncSearchBytes

\* ------------------------------------------- one Decoder, two goroutines
\* Two goroutines each make one call on one Decoder, step by step as the
\* statements of Read, Seek, SeekToTime and Position run.  With call.mutex the
\* calls go through the README's SafeDecoder: a goroutine takes mu before its
\* first step and gives it back after its last.  result.mu is the goroutine
\* holding the mutex (0: free) and result.g[i] is goroutine i: where it stands
\* (pc), its locals (n, data, npos, f) and what its call returned (ret, err).
\* readFrame is one step.

\* streams of MPEG1 frames that need no earlier frame's main data
SharedFiles ==
    { MakeFile(0, [i \in 1..n |-> FrameKinds[1]], "none") : n \in 2..MaxFrames }

PlaybackOps == { [name |-> "Read", a |-> 3000, w |-> 0],
                 [name |-> "Position", a |-> 0, w |-> 0] }
ControlOps == { [name |-> "Read", a |-> 3000, w |-> 0],
                [name |-> "Seek", a |-> 4608, w |-> SeekStart],
                [name |-> "Seek", a |-> 9220, w |-> SeekStart],
                [name |-> "SeekToTime", a |-> 30000000, w |-> 0] }

SharedInputs == [fn : {"shared"}, mutex : BOOLEAN, ops : PlaybackOps \X ControlOps]

Goroutine ==
    [pc |-> "call", n |-> 0, data |-> <<>>, npos |-> 0, f |-> 0, ret |-> 0, err |-> "nil"]

InitShared ==
    \E f \in SharedFiles :
        LET Built(r) ==
                /\ file = f
                /\ seekable = TRUE
                /\ src = r.d.src
                /\ sampleRate = r.d.sampleRate
                /\ length = r.d.length
                /\ frameStarts = r.d.frameStarts
                /\ buf = r.d.buf
                /\ frame = r.d.frame
                /\ pos = r.d.pos
                /\ bytesPerFrame = r.d.bytesPerFrame
                /\ last = [op |-> "NewDecoder", a |-> 0, w |-> 0, ret |-> 0, err |-> r.err,
                           data |-> <<>>, from |-> 0]
                /\ nops = 0
                /\ BitsIdle
                /\ call \in SharedInputs
                /\ result = [done |-> FALSE, mu |-> 0, g |-> <<Goroutine, Goroutine>>]
        IN  Built(NewDecoder(f, TRUE))

\* goroutine i takes a step that leaves the Decoder as D and itself as G
Shares(i, D, G) ==
    /\ src' = D.src
    /\ sampleRate' = D.sampleRate
    /\ length' = D.length
    /\ frameStarts' = D.frameStarts
    /\ buf' = D.buf
    /\ frame' = D.frame
    /\ pos' = D.pos
    /\ bytesPerFrame' = D.bytesPerFrame
    /\ result' = [result EXCEPT !.g[i] = G]
    /\ UNCHANGED <<file, seekable, last, nops, call, bitsVars>>

At(i, name, pc) == call.fn = "shared" /\ call.ops[i].name = name /\ result.g[i].pc = pc

\* the call returns (ret, err)
Return(G, ret, err) == [G EXCEPT !.pc = "return", !.ret = ret, !.err = err]

\* s.mu.Lock() and the call of the Decoder's method
GoEnter ==
    \E i \in 1..2 :
        /\ call.fn = "shared"
        /\ result.g[i].pc = "call"
        /\ call.mutex => result.mu = 0
        /\ result' = [result EXCEPT !.mu = IF call.mutex THEN i ELSE 0,
                                    !.g[i].pc = call.ops[i].name]
        /\ UNCHANGED <<decoderVars, call, bitsVars>>

\* the return and the deferred s.mu.Unlock()
GoLeave ==
    \E i \in 1..2 :
        /\ call.fn = "shared"
        /\ result.g[i].pc = "return"
        /\ result' = [result EXCEPT !.mu = 0, !.g[i].pc = "done",
                                    !.done = (result.g[3 - i].pc = "done")]
        /\ UNCHANGED <<decoderVars, call, bitsVars>>

\* Read: for len(d.buf) == 0 { readFrame }
GoReadFill ==
    \E i \in 1..2 :
        LET G == result.g[i]
            Got(r) == IF r.err # "nil" THEN Shares(i, r.d, Return(G, 0, r.err))
                      ELSE Shares(i, r.d, G)
        IN  /\ At(i, "Read", "Read")
            /\ IF buf = <<>> THEN Got(readFrame(file, Dec))
               ELSE Shares(i, Dec, [G EXCEPT !.pc = "copy"])

\* Read: n := copy(buf, d.buf)
GoReadCopy ==
    \E i \in 1..2 :
        LET Copied(n) ==
                Shares(i, Dec, [result.g[i] EXCEPT !.pc = "slice", !.n = n, !.data = Take(buf, n)])
        IN  /\ At(i, "Read", "copy")
            /\ Copied(Min(call.ops[i].a, BufLen(buf)))

\* Read: d.buf = d.buf[n:]
GoReadSlice ==
    \E i \in 1..2 :
        LET G == result.g[i] IN
        /\ At(i, "Read", "slice")
        /\ IF G.n > BufLen(buf)
           THEN Shares(i, Dec, Return(G, 0, "panic"))     \* slice bounds out of range
           ELSE Shares(i, [Dec EXCEPT !.buf = Drop(buf, G.n)], [G EXCEPT !.pc = "load"])

\* Read: d.pos += int64(n), the load of d.pos
GoReadLoad ==
    \E i \in 1..2 :
        /\ At(i, "Read", "load")
        /\ Shares(i, Dec, [result.g[i] EXCEPT !.pc = "store", !.npos = pos])

\* Read: d.pos += int64(n), the store to d.pos, and return n, nil
GoReadStore ==
    \E i \in 1..2 :
        LET G == result.g[i] IN
        /\ At(i, "Read", "store")
        /\ Shares(i, [Dec EXCEPT !.pos = G.npos + G.n], Return(G, G.n, "nil"))

\* Position: return d.bytesToDuration(d.pos)
GoPosition ==
    \E i \in 1..2 :
        /\ At(i, "Position", "Position")
        /\ Shares(i, Dec, Return(result.g[i], Position(Dec), "nil"))

\* SeekToTime up to its call of d.Seek(bytes, io.SeekStart)
GoSeekToTime ==
    \E i \in 1..2 :
        LET G == result.g[i]
            Upper(t1, duration) == IF t1 > duration THEN duration ELSE t1
            Aligned(bytes) == bytes - (bytes % 4)
            t == call.ops[i].a
        IN  /\ At(i, "SeekToTime", "SeekToTime")
            /\ IF length = invalidLength
               THEN Shares(i, Dec, Return(G, 0, "not supported"))
               ELSE Shares(i, Dec,
                      [G EXCEPT !.pc = "setpos",
                                !.npos = Aligned(durationToBytes(Dec,
                                             Upper(IF t < 0 THEN 0 ELSE t, Duration(Dec))))])

\* Seek: the special case and the switch on whence
GoSeekWhence ==
    \E i \in 1..2 :
        LET G == result.g[i]
            offset == call.ops[i].a
            whence == call.ops[i].w
        IN  /\ At(i, "Seek", "Seek")
            /\ IF offset = 0 /\ whence = SeekCurrent
               THEN Shares(i, Dec, Return(G, pos, "nil"))
               ELSE IF whence \notin {SeekStart, SeekCurrent, SeekEnd}
               THEN Shares(i, Dec, Return(G, 0, "invalid whence"))
               ELSE Shares(i, Dec,
                      [G EXCEPT !.pc = "setpos",
                                !.npos = CASE whence = SeekStart -> offset
                                           [] whence = SeekCurrent -> pos + offset
                                           [] whence = SeekEnd -> length + offset])

InSeek(i, pc) ==
    /\ call.fn = "shared"
    /\ call.ops[i].name \in {"Seek", "SeekToTime"}
    /\ result.g[i].pc = pc

\* Seek: d.pos = npos
GoSeekSetPos ==
    \E i \in 1..2 :
        /\ InSeek(i, "setpos")
        /\ Shares(i, [Dec EXCEPT !.pos = result.g[i].npos], [result.g[i] EXCEPT !.pc = "drop"])

\* Seek: d.buf = nil, d.frame = nil, and the clamp of a negative d.pos
GoSeekDrop ==
    \E i \in 1..2 :
        /\ InSeek(i, "drop")
        /\ Shares(i, [Dec EXCEPT !.buf = <<>>, !.frame = NoFrame,
                                 !.pos = IF pos < 0 THEN 0 ELSE pos],
                  [result.g[i] EXCEPT !.pc = "end"])

\* Seek: the return at the end of the stream, else f := d.pos / d.bytesPerFrame
GoSeekEnd ==
    \E i \in 1..2 :
        LET G == result.g[i] IN
        /\ InSeek(i, "end")
        /\ IF length # invalidLength /\ pos >= length
           THEN Shares(i, Dec, Return(G, G.npos, "nil"))
           ELSE IF bytesPerFrame = 0
           THEN Shares(i, Dec, Return(G, 0, "panic"))      \* integer divide by zero
           ELSE Shares(i, Dec, [G EXCEPT !.pc = "source", !.f = pos \div bytesPerFrame])

\* Seek: d.source.Seek(d.frameStarts[f], 0), of the frame before when f > 0;
\* n counts the frames to read
GoSeekSource ==
    \E i \in 1..2 :
        LET G == result.g[i]
            To(fi, frames) ==
                IF fi + 1 > Len(frameStarts)
                THEN Shares(i, Dec, Return(G, 0, "panic"))  \* index out of range
                ELSE Shares(i, sourceSeek(Dec, frameStarts[fi + 1]),
                            [G EXCEPT !.pc = "frame", !.n = frames])
        IN  /\ InSeek(i, "source")
            /\ IF G.f > 0 THEN To(G.f - 1, 2) ELSE To(0, 1)

\* Seek: one readFrame
GoSeekFrame ==
    \E i \in 1..2 :
        LET G == result.g[i]
            Got(r) ==
                IF r.err # "nil" THEN Shares(i, r.d, Return(G, 0, r.err))
                ELSE Shares(i, r.d, [G EXCEPT !.n = G.n - 1,
                                              !.pc = IF G.n = 1 THEN "cut" ELSE "frame"])
        IN  /\ InSeek(i, "frame")
            /\ Got(readFrame(file, Dec))

\* Seek: d.buf = d.buf[...:] and return npos, nil
GoSeekCut ==
    \E i \in 1..2 :
        LET G == result.g[i]
            Slice(cut) ==
                IF cut > BufLen(buf)
                THEN Shares(i, Dec, Return(G, 0, "panic"))  \* slice bounds out of range
                ELSE Shares(i, [Dec EXCEPT !.buf = Drop(buf, cut)], Return(G, G.npos, "nil"))
        IN  /\ InSeek(i, "cut")
            /\ IF G.f > 0 THEN Slice(bytesPerFrame + (pos % bytesPerFrame)) ELSE Slice(pos)

NextShared ==
    \/ GoEnter
    \/ GoLeave
    \/ GoReadFill
    \/ GoReadCopy
    \/ GoReadSlice
    \/ GoReadLoad
    \/ GoReadStore
    \/ GoPosition
    \/ GoSeekToTime
    \/ GoSeekWhence
    \/ GoSeekSetPos
    \/ GoSeekDrop
    \/ GoSeekEnd
    \/ GoSeekSource
    \/ GoSeekFrame
    \/ GoSeekCut

SpecShared == InitShared /\ [][NextShared]_vars

\* the call op made on Decoder D as one step: the Decoder it leaves and what
\* it returns
Whole(D, op) ==
    LET OfRead(r) == [d |-> r.d, ret |-> r.n, err |-> r.err, data |-> r.data]
        OfSeek(r) == [d |-> r.d, ret |-> r.ret, err |-> r.err, data |-> <<>>]
    IN  CASE op.name = "Read" -> OfRead(Read(file, D, op.a))
          [] op.name = "Seek" -> OfSeek(Seek(file, D, op.a, op.w))
          [] op.name = "SeekToTime" -> OfSeek(SeekToTime(file, D, op.a))
          [] op.name = "Position" -> [d |-> D, ret |-> Position(D), err |-> "nil", data |-> <<>>]

\* the Decoder and both returns are those of goroutine i's call made as one
\* step on the fresh Decoder and then goroutine j's
InOrder(i, j) ==
    LET Same(G, r) == G.ret = r.ret /\ G.err = r.err /\ G.data = r.data
        Then(r1, r2) ==
            /\ Same(result.g[i], r1)
            /\ Same(result.g[j], r2)
            /\ Dec = r2.d
        Begin(r1) == Then(r1, Whole(r1.d, call.ops[j]))
    IN  Begin(Whole(Fresh, call.ops[i]))

\* the offset in the decoded stream of the first byte of PCM chunk c
StreamOffset(c) ==
    PCMBytes([k \in 1..(c.idx - 1) |-> [ver |-> file.segs[k].ver, mdb |-> 0]]) + c.lo

\* d.pos is the stream offset of the next byte Read delivers, if it delivers one
PosIsNextByte ==
    LET Got(r) == (r.err = "nil" /\ r.n > 0) => StreamOffset(r.data[1]) = pos
    IN  Got(Read(file, Dec, 1))

\* ------------------------------------------------------------------ claims

\* C1: on a seekable decoder, after Seek(o, SeekStart) with o a multiple of 4
\* in [0, Length()), the returned position and the decoder position are o and
\* the bytes read afterwards are the bytes from o onward of a straight read of
\* a fresh decoder on the same stream, for every target frame (stated for
\* streams whose frames all have one MPEG version).
C1_SeekMatchesStraightRead ==
    (/\ seekable /\ UniformVersion
     /\ last.op = "Seek" /\ last.w = SeekStart /\ last.err = "nil"
     /\ last.a % 4 = 0 /\ 0 <= last.a /\ last.a < length)
    => /\ last.ret = last.a
       /\ pos = last.a
       /\ Rest.data = Drop(StraightRead, last.a)

\* C2: seeking a seekable decoder to byte 0, after any earlier reads and
\* seeks, succeeds, leaves the position at 0, and every read from there
\* delivers what the same read of a fresh decoder delivers.
C2_SeekToStartIdempotent ==
    (seekable /\ last.op = "Seek" /\ last.w = SeekStart /\ last.a = 0)
    => /\ last.err = "nil"
       /\ last.ret = 0
       /\ pos = 0
       /\ \A n \in ReadSizes : Read(file, Dec, n).data = Read(file, Fresh, n).data
       /\ Rest.data = StraightRead

C2_Witness ==
    /\ seekable
    /\ last.op = "Seek" /\ last.w = SeekStart /\ last.a = 0 /\ last.err = "nil"
    /\ last.from > 0
    /\ Len(file.segs) >= 3

\* C3: after a successful Seek(o, SeekStart) with 0 <= o < Length() on a
\* seekable stream, reading to end of stream returns exactly Length() - o
\* bytes and no error (stated for streams whose frames all have one MPEG
\* version).
C3_SeekThenReadAllLength ==
    (/\ seekable /\ UniformVersion
     /\ last.op = "Seek" /\ last.w = SeekStart /\ last.err = "nil"
     /\ 0 <= last.a /\ last.a < length)
    => /\ Rest.err = "nil"
       /\ Rest.n = length - last.a

\* C4: K whole frames followed by header-free garbage of any length decode to
\* exactly the PCM of the K frames and then end of stream with no error: the
\* same bytes as the same frames with nothing after them.
C4_GarbageTailIgnored ==
    (FramesThenGarbage /\ last.op = "ReadAll" /\ nops = 1)
    => LET kinds == LeadingFrames(file.segs)
           bare == MakeFile(0, kinds, "none")
       IN  /\ last.err = "nil"
           /\ last.ret = PCMBytes(kinds)
           /\ last.data = ReadAll(bare, NewDecoder(bare, seekable).d).data

C4_Witness ==
    /\ FramesThenGarbage /\ LongGap
    /\ last.op = "ReadAll" /\ nops = 1 /\ last.err = "nil"
    /\ last.ret = PCMBytes(LeadingFrames(file.segs))
    /\ Len(LeadingFrames(file.segs)) >= 2

\* C5: on a seekable source Length() equals the number of PCM bytes a read
\* from the start to end of stream delivers, for every stream.
C5_LengthEqualsDecodedBytes ==
    (seekable /\ last.op = "ReadAll" /\ nops = 1 /\ last.err = "nil")
    => last.ret = length

\* C6: when whole frames are followed by more than 65,536 header-free bytes,
\* construction succeeds, Length() on a seekable source counts only the frames
\* before the run, and reading ends with end of stream and no error after
\* exactly the PCM of those frames.
C6_SyncLimitIsEndOfAudio ==
    LongGap
    => /\ Constructed
       /\ seekable => length = PCMBytes(LeadingFrames(file.segs))
       /\ (last.op = "ReadAll" /\ nops = 1)
            => last.err = "nil" /\ last.ret = PCMBytes(LeadingFrames(file.segs))
       /\ (last.op = "Read" /\ last.err # "nil") => last.err = "EOF"

C6_Witness ==
    /\ LongGap /\ seekable
    /\ last.op = "ReadAll" /\ nops = 1 /\ last.err = "nil"
    /\ last.ret = length
    /\ src >= file.starts[Len(LeadingFrames(file.segs)) + 1] + MaxSyncSearchBytes

\* C7: once Read has returned end-of-stream, a further Read with no Seek in
\* between also returns 0 bytes and end-of-stream.
C7_ExhaustedIsSticky ==
    (last.op = "Read" /\ last.err = "EOF")
    => \A n \in ReadSizes :
           LET r == Read(file, Dec, n) IN r.n = 0 /\ r.err = "EOF"

\* C8: on a decoder over a non-seekable reader every Seek other than the
\* position query (0, SeekCurrent) returns a non-nil error: it neither
\* succeeds nor crashes.
C8_SeekNonSeekableReturnsError ==
    (~seekable /\ last.op = "Seek" /\ ~(last.a = 0 /\ last.w = SeekCurrent))
    => last.err \notin {"nil", "panic"}

\* C9: on a seekable decoder the byte position always satisfies
\* 0 <= position <= Length(), after any calls.
C9_PositionWithinLength ==
    (seekable /\ Constructed) => (0 <= pos /\ pos <= length)

\* C10: after SeekToSample(s) returns without error on a seekable decoder,
\* SamplePosition() = max(0, min(s, SampleCount())).
C10_SeekToSampleClamps ==
    (seekable /\ last.op = "SeekToSample" /\ last.err = "nil")
    => SamplePosition(Dec) = Max(0, Min(last.a, SampleCount(Dec)))

C10_Witness ==
    /\ seekable /\ last.op = "SeekToSample" /\ last.err = "nil"
    /\ last.a > SampleCount(Dec)
    /\ SamplePosition(Dec) = SampleCount(Dec)
    /\ last.from > 0

\* C11: after SeekToTime(t) returns without error on a seekable decoder the
\* byte position is a multiple of 4 within [0, Length()]; a negative t
\* leaves it at 0, and a t at or beyond Duration() leaves the decoder at the
\* end of the stream: position = Length() and Position() = Duration().
C11_SeekToTimeClamps ==
    (seekable /\ last.op = "SeekToTime" /\ last.err = "nil")
    => /\ pos % 4 = 0 /\ 0 <= pos /\ pos <= length
       /\ last.a < 0 => pos = 0
       /\ last.a >= Duration(Dec) => (pos = length /\ Position(Dec) = Duration(Dec))

\* C12: every Read (and every read to end of stream) that delivers n bytes
\* moves the byte position forward by exactly n, on seekable and
\* non-seekable sources; read from a fresh decoder, b bytes leave the
\* position at b and SamplePosition() at b / 4.
C12_ReadAdvancesPosition ==
    /\ [](((nops = 1 /\ last.op \in {"Read", "ReadAll"})
            => (pos = last.ret /\ SamplePosition(Dec) = last.ret \div 4)))
    /\ [][last'.op \in {"Read", "ReadAll"}
            => (pos' = pos + last'.ret /\ SamplePosition(Dec)' = (pos + last'.ret) \div 4)]_vars

C12_Witness ==
    /\ ~seekable
    /\ last.op = "Read" /\ last.err = "nil" /\ last.ret > 0
    /\ nops = 2 /\ last.from > 0
    /\ pos = last.from + last.ret

\* C13: a fresh decoder read without seeking delivers the PCM of the first,
\* second, ... last frame in that order, each frame whole and exactly once,
\* each decoded after its predecessor; the frame decoded during construction
\* and the scan of a seekable source drop and repeat nothing, and a first
\* Read delivers the first bytes of that sequence and leaves the rest.
C13_StreamOrder ==
    /\ (last.op = "ReadAll" /\ nops = 1 /\ last.err = "nil")
        => LET kinds == LeadingFrames(file.segs) IN
           /\ Len(last.data) = Len(kinds)
           /\ \A i \in 1..Len(last.data) :
                /\ last.data[i].idx = i
                /\ last.data[i].hidx = i - 1
                /\ last.data[i].lo = 0
                /\ last.data[i].hi = BytesPerFrame(kinds[i].ver)
    /\ (last.op = "Read" /\ nops = 1 /\ last.err = "nil")
        => /\ last.data = Take(StraightRead, last.ret)
           /\ Rest.data = Drop(StraightRead, last.ret)

C13_Witness ==
    /\ seekable /\ file.lead > 0
    /\ last.op = "ReadAll" /\ nops = 1 /\ last.err = "nil"
    /\ Len(last.data) = 3
    /\ last.data[3].idx = 3

\* C14: Bits(N), for N in 1..32 with at least N bits remaining, returns the
\* unsigned integer formed by the next N bits of the buffer, most significant
\* first, and advances the position by N, from every bit position 0..7,
\* requests with bit_pos + N > 32 (spanning 5 bytes) included.
C14_BitsIsMSBFirstRead ==
    (/\ lastBits.op = "Bits" /\ lastBits.n \in 1..32
     /\ lastBits.from + lastBits.n <= 8 * Len(vec))
    => /\ lastBits.ret = Zeros(32 - lastBits.n)
                          \o SubSeq(BitStream(vec), lastBits.from + 1, lastBits.from + lastBits.n)
       /\ BitPos(Reader) = lastBits.from + lastBits.n

\* C15: Bit() at the end of the buffer, and Bits(N) with fewer than N bits
\* remaining (a partly available read included), return 0 and set Err();
\* reads lying fully inside the buffer leave Err() nil; and once set, Err()
\* stays non-nil after every later Bit, Bits and SetPos.
C15_OutOfBoundsLatchesError ==
    /\ (lastBits.op = "Bit" /\ lastBits.from >= 8 * Len(vec))
       => (lastBits.ret = Zeros(32) /\ bitsErr # "nil")
    /\ (lastBits.op = "Bits" /\ lastBits.n >= 1 /\ lastBits.from + lastBits.n > 8 * Len(vec))
       => (lastBits.ret = Zeros(32) /\ bitsErr # "nil")
    /\ (/\ lastBits.op \in {"Bit", "Bits"} /\ lastBits.errBefore = "nil"
        /\ lastBits.from + lastBits.n <= 8 * Len(vec))
       => bitsErr = "nil"
    /\ (lastBits.op \in {"Bit", "Bits", "SetPos"} /\ lastBits.errBefore # "nil")
       => bitsErr # "nil"

C15_Witness ==
    /\ lastBits.op = "Bits" /\ lastBits.n = 8
    /\ lastBits.from + lastBits.n <= 8 * Len(vec)
    /\ lastBits.errBefore = "ErrOutOfBounds"
    /\ bitsErr = "ErrOutOfBounds"

\* C16: for a granule with data to decode and no short-block window
\* switching, when region0_count + region1_count + 2 indexes past the last
\* entry of the long scalefactor-band table (15 and 7 give index 24),
\* readHuffman returns no error and uses region2_start = 576.
C16_RegionClamp ==
    (/\ result.done /\ call.fn = "readHuffman"
     /\ call.Part2_3Length > 0 /\ call.BigValues * 2 <= SamplesPerGr
     /\ ~(call.WinSwitchFlag = 1 /\ call.BlockType = 2)
     /\ call.Region0Count + 1 < Len(SfBandIndicesLong)
     /\ call.Region0Count + call.Region1Count + 2 >= Len(SfBandIndicesLong))
    => /\ result.err = "nil"
       /\ result.region2Start = SamplesPerGr

\* C17: frameheader.Read started at position p returns the header and the
\* absolute position of the first 4-byte window at or after p that has the 11
\* sync bits, layer bits 01, a bitrate index other than 0 and 15 and a
\* sample-rate index other than 3; windows with the sync bits and a Layer I
\* or Layer II layer field are passed over one byte at a time and never
\* returned.
C17_FirstValidLayer3Header ==
    (result.done /\ call.fn = "frameheader.Read")
    => LET Passes(q) ==
               /\ call.data[q + 1] = 255 /\ call.data[q + 2] >= 224
               /\ (call.data[q + 2] \div 2) % 4 = 1
               /\ call.data[q + 3] \div 16 \notin {0, 15}
               /\ (call.data[q + 3] \div 4) % 4 # 3
           passing == { q \in call.position..(Len(call.data) - 4) : Passes(q) }
       IN  /\ passing # {}
              => /\ result.err = "nil"
                 /\ result.position \in passing
                 /\ \A q \in passing : result.position <= q
                 /\ result.header = Window(call.data, result.position)
           /\ passing = {} => result.err # "nil"

C17_Witness ==
    /\ result.done /\ call.fn = "frameheader.Read" /\ result.err = "nil"
    /\ Window(call.data, call.position) = <<255, 255, 196, 32>>
    /\ result.position = call.position + 5
    /\ result.header = <<255, 251, 178, 0>>

\* C18: for header 0xFFFB9044 the frame size is 417 bytes, the samples per
\* frame are 1152 and the side information is 32 bytes long, and the frame
\* decodes to 1152 * 4 = 4608 bytes of PCM.
C18_Mpeg1HeaderSizes ==
    (result.done /\ call.fn = "header" /\ call.header = <<255, 251, 144, 68>>)
    => /\ result.frameSize = 417
       /\ result.samplesPerFrame = 1152
       /\ result.sideInfoSize = 32
       /\ result.pcmBytes = 4608
       /\ result.frameSize = FrameSize(1)

C18_Witness ==
    /\ result.done /\ call.fn = "header" /\ call.header = <<255, 251, 144, 68>>
    /\ result.frameSize = 417

\* C19 as stated: for header 0xFFF39000 the accessors give 576 samples per
\* frame and 1 channel, and the frame decodes to 576 * 4 = 2304 bytes of PCM.
C19_Mpeg2HeaderMono ==
    (result.done /\ call.fn = "header" /\ call.header = <<255, 243, 144, 0>>)
    => /\ result.samplesPerFrame = 576
       /\ result.channels = 1
       /\ result.pcmBytes = 2304

\* C19 as amended: for header 0xFFF39000, whose mode bits are 00, the
\* accessors give 576 samples per frame and 2 channels, and the frame decodes
\* to 576 * 4 = 2304 bytes of PCM.
C19_Mpeg2HeaderStereo ==
    (result.done /\ call.fn = "header" /\ call.header = <<255, 243, 144, 0>>)
    => /\ result.samplesPerFrame = 576
       /\ result.channels = 2
       /\ result.pcmBytes = 2304

C19_Witness ==
    /\ result.done /\ call.fn = "header" /\ call.header = <<255, 243, 144, 0>>
    /\ channelMode(call.header) = 0
    /\ result.pcmBytes = 2304

\* C20: sideinfo.Read returns an error and no SideInfo whenever the header's
\* frame size exceeds 2000 bytes, with no byte taken from the source; on a
\* source that ends before side_info_size bytes it returns the unexpected-EOF
\* error and no SideInfo; a SideInfo is returned only whole, with no error.
C20_SideInfoRejects ==
    (result.done /\ call.fn = "sideinfo.Read")
    => /\ (call.h.frameSizeErr = "nil" /\ call.h.framesize > 2000)
          => (result.err # "nil" /\ result.si = "nil" /\ result.read = 0)
       /\ (/\ call.h.frameSizeErr = "nil" /\ call.h.framesize <= 2000
           /\ call.failure = "EOF"
           /\ call.avail < (IF call.h.lsf = 0 THEN (IF call.h.nch = 1 THEN 17 ELSE 32)
                            ELSE (IF call.h.nch = 1 THEN 9 ELSE 17)))
          => (result.err = "UnexpectedEOFError" /\ result.si = "nil")
       /\ result.si # "nil"
          => (result.err = "nil" /\ result.bits = 8 * result.read)

C20_Witness ==
    /\ result.done /\ call.fn = "sideinfo.Read"
    /\ call.h.frameSizeErr = "nil" /\ call.h.framesize = 2001 /\ call.avail = 40
    /\ result.err = "framesize" /\ result.read = 0

\* C26: after a successful seek of a seekable decoder to a position at or
\* beyond Length() (by Seek, SeekToSample or SeekToTime), the next Read
\* returns 0 bytes and end of stream, whatever the positions of the decoder
\* and of the source were before.
C26_SeekToEndThenEOF ==
    (/\ seekable /\ last.op \in {"Seek", "SeekToSample", "SeekToTime"}
     /\ last.err = "nil" /\ pos >= length)
    => \A n \in ReadSizes : Read(file, Dec, n).n = 0 /\ Read(file, Dec, n).err = "EOF"

\* C27: whenever Seek returns without error the returned value is the
\* decoder's position afterwards, also when a negative position was clamped to
\* 0; whenever Seek returns an error the decoder's position and buffered data
\* are those of before the call.
C27_SeekReportsPosition ==
    /\ []((last.op = "Seek" /\ last.err = "nil") => last.ret = pos)
    /\ [][(last'.op = "Seek" /\ last'.err \notin {"nil", "panic"})
            => (pos' = pos /\ buf' = buf)]_vars

\* C28: on a seekable source the frame-start table built at construction is
\* strictly increasing, and for every position p in [0, Length()) the frame
\* index p / BytesPerFrame() is an index of the table (as the quotient grows
\* with p, the first and the last position decide it), for streams of mixed
\* MPEG1 and MPEG2 frames too; so a Seek into [0, Length()) never indexes the
\* table out of range.
C28_FrameIndexInRange ==
    (seekable /\ Constructed /\ length > 0 /\ bytesPerFrame > 0)
    => /\ \A i \in 1..(Len(frameStarts) - 1) : frameStarts[i] < frameStarts[i + 1]
       /\ \A p \in {0, length - 1} : p \div bytesPerFrame < Len(frameStarts)
       /\ (/\ last.op = "Seek" /\ last.w = SeekStart
           /\ 0 <= last.a /\ last.a < length)
          => last.err # "panic"

\* C22 as stated: no quadruple is decoded starting at a position >= 572, and
\* each decoded quadruple is stored in the order v, w, x, y.
C22_NoQuadFrom572 ==
    (call.fn = "readHuffman words" /\ ~result.done /\ result.pc = "count1"
     /\ result.quads > 0)
    => /\ result.quadAt < 572
       /\ result.is[result.quadAt] = "v" /\ result.is[result.quadAt + 1] = "w"
       /\ result.is[result.quadAt + 2] = "x" /\ result.is[result.quadAt + 3] = "y"

\* C22 as amended: no quadruple is decoded starting at a position > 572 (one
\* starting at 572 fills samples 572..575), the count1 loop goes on only while
\* the bit cursor has not passed the end of the part, and each decoded
\* quadruple is stored in the order v, w, x, y.
C22_NoQuadPast572 ==
    /\ [](/\ call.fn = "readHuffman words" /\ ~result.done /\ result.pc = "count1"
           /\ result.quads > 0
           => /\ result.quadAt <= 572
              /\ result.is[result.quadAt] = "v" /\ result.is[result.quadAt + 1] = "w"
              /\ result.is[result.quadAt + 2] = "x" /\ result.is[result.quadAt + 3] = "y"
              /\ result.isPos = result.quadAt + 4)
    /\ [][(result.pc = "count1" /\ result'.pc = "count1" /\ result'.quads > result.quads)
            => (result.isPos <= 572 /\ result.bitPos <= result.bitPosEnd)]_vars

C22_Witness ==
    /\ call.fn = "readHuffman words" /\ ~result.done /\ result.pc = "count1"
    /\ result.quads = 1 /\ result.quadAt = 572 /\ result.is[575] = "y"

\* C23: when the bit cursor after the count1 loop is beyond end+1, count1 is
\* the loop's final position minus 4 if a quadruple was decoded; when none was
\* decoded no big-value sample is undone; so a successful readHuffman leaves
\* count1 >= 2 * big_values and count1 in 0..576.
C23_RollbackOneQuad ==
    [][(call.fn = "readHuffman words" /\ result.pc = "count1" /\ result'.pc = "return")
        => /\ (result.bitPos > result.bitPosEnd + 1 /\ result.quads > 0)
              => result'.count1 = result.isPos - 4
           /\ result.quads = 0 => result'.count1 = result.isPos
           /\ result'.count1 >= 2 * call.BigValues
           /\ result'.count1 \in 0..SamplesPerGr]_vars

\* C24: after a successful readHuffman with part2_3_length > 0 the recorded
\* count1 is where the samples end, every sample from count1 to 575 is zero
\* and the bit cursor is part2Start + part2_3_length whatever the words took;
\* with part2_3_length = 0 all 576 samples are zero and no bit is taken.
C24_ZeroTailAndCursor ==
    (call.fn = "readHuffman words" /\ result.done /\ result.err = "nil")
    => IF call.Part2_3Length = 0
       THEN /\ \A i \in 0..(SamplesPerGr - 1) : result.is[i] = "zero"
            /\ result.bitPos = call.part2Start
       ELSE /\ \A i \in 0..(SamplesPerGr - 1) :
                  (i >= result.count1) <=> (result.is[i] = "zero")
            /\ result.bitPos = call.part2Start + call.Part2_3Length

C24_Witness ==
    /\ call.fn = "readHuffman words" /\ result.done /\ result.err = "nil"
    /\ call.Part2_3Length > 0
    /\ result.quads > 1 /\ result.count1 = result.quadAt
    /\ result.is[result.count1 - 1] = "y" /\ result.is[result.count1] = "zero"

C25_ShortWindowsFromZero ==
    (call.fn = "Win" /\ result.done /\ call.blockType = 2)
    => /\ \A k \in 0..35 : \A i \in 0..2 :
              <<"short", i>> \in result.out[k] => k \in (6 * i)..(6 * i + 11)
       /\ \A k \in 24..35 : result.out[k] = {}

\* C25 as amended: for block_type = 2 window i (i = 0, 1, 2) of imdct.Win adds
\* into output indices 6i+6 .. 6i+17, the windows being summed where they
\* overlap, so only indices 6..29 can be non-zero and indices 0..5 and 30..35
\* are zero.
C25_ShortWindowsFromSix ==
    (call.fn = "Win" /\ result.done /\ call.blockType = 2)
    => /\ \A k \in 0..35 : \A i \in 0..2 :
              <<"short", i>> \in result.out[k]
              <=> (k \in (6 * i + 6)..(6 * i + 17) /\ \E m \in 0..5 : (i + 3 * m) \in call.in)
       /\ \A k \in (0..5) \cup (30..35) : result.out[k] = {}

C25_Witness ==
    /\ call.fn = "Win" /\ result.done /\ call.blockType = 2
    /\ result.out[6] = {<<"short", 0>>}
    /\ result.out[12] = {<<"short", 0>>, <<"short", 1>>}
    /\ result.out[29] = {<<"short", 2>>}

\* C29: sideinfo.Read consumes exactly 8 x side_info_size bits of its buffer
\* (32 / 17 bytes for MPEG1 stereo / mono, 17 / 9 for MPEG2 stereo / mono)
\* whatever the window_switching_flag values are: the bit reader's error
\* stays nil and no bit is left unread.
C29_SideInfoBitsExact ==
    (call.fn = "sideinfo.Read fields" /\ result.done)
    => /\ result.err = "nil"
       /\ result.size = (IF call.lsf = 0 THEN (IF call.nch = 2 THEN 32 ELSE 17)
                                         ELSE (IF call.nch = 2 THEN 17 ELSE 9))
       /\ result.bitPos = 8 * result.size
       /\ Len(result.flags) = (IF call.lsf = 0 THEN 2 ELSE 1) * call.nch

C29_Witness ==
    /\ call.fn = "sideinfo.Read fields" /\ result.done
    /\ call.lsf = 0 /\ call.nch = 2
    /\ \E i, j \in 1..4 : result.flags[i] = 0 /\ result.flags[j] = 1
    /\ result.bitPos = 256

\* C21: when every call on one Decoder is made under the SafeDecoder's mutex,
\* the calls of two goroutines leave the Decoder and return what the calls made
\* one after the other, in one of the two orders, leave and return, and
\* whenever the mutex is free the position is the stream offset of the next
\* byte Read will deliver.
C21_MutexMakesCallsSequential ==
    (call.fn = "shared" /\ call.mutex)
    => /\ result.done => (InOrder(1, 2) \/ InOrder(2, 1))
       /\ result.mu = 0 => PosIsNextByte

\* C21, without the mutex: interleaved steps of Read and Seek end in a state
\* that neither order of the two calls produces, the position no longer being
\* the stream offset of the buffered bytes.
C21_RaceWitness ==
    /\ call.fn = "shared" /\ ~call.mutex
    /\ call.ops[1].name = "Read" /\ call.ops[2].name = "Seek"
    /\ result.done
    /\ result.g[1].err = "nil" /\ result.g[2].err = "nil"
    /\ ~InOrder(1, 2) /\ ~InOrder(2, 1)
    /\ buf # <<>> /\ StreamOffset(buf[1]) # pos

====================================================================
